---- MODULE Spec2Model ----
\* Incremental static-site builder of CI-LLM4APR (src/src/publisher/static_site.py):
\* the output directory (manifest.json, data/papers.json, archives/, topics/,
\* index.html) and the StaticSiteBuilder object that merges new summaries into it.
EXTENDS Integers, Sequences, FiniteSets, TLC

\* ---------------------------------------------------------------- bounds
NumIds == 2
MaxLen == 2
MaxTime == 2
MaxFaults == 1

Ids == 1..NumIds

\* ---------------------------------------------------------------- program values
NoTime == -1
BaseUrl == "https://example.org/site"

\* A PaperSummary as far as the builder reads it: paper.arxiv_id and topic.name.
\* The first paper is fetched under both topics, every other paper under one.
PaperSummary ==
    {s \in [arxiv_id : Ids, topic : {"apr", "nlp"}] :
        \/ s.arxiv_id = 1
        \/ s.topic = (IF s.arxiv_id % 2 = 0 THEN "apr" ELSE "nlp")}

RECURSIVE SeqsUpTo(_, _)
SeqsUpTo(S, n) ==
    IF n = 0 THEN {<<>>}
    ELSE LET shorter == SeqsUpTo(S, n - 1)
         IN  shorter \cup {Append(q, x) : q \in {r \in shorter : Len(r) = n - 1}, x \in S}

SummaryLists == SeqsUpTo(PaperSummary, MaxLen)

\* ---------------------------------------------------------------- Python dict
\* A dict is a sequence of [k, v] items in insertion order with distinct keys.
DictKeys(d) == {d[i].k : i \in 1..Len(d)}
DictGet(d, key) == d[CHOOSE i \in 1..Len(d) : d[i].k = key].v
DictSet(d, key, val) ==
    IF key \in DictKeys(d)
    THEN [i \in 1..Len(d) |-> IF d[i].k = key THEN [k |-> key, v |-> val] ELSE d[i]]
    ELSE Append(d, [k |-> key, v |-> val])
DictValues(d) == [i \in 1..Len(d) |-> d[i].v]

RECURSIVE SelectSeqBy(_, _)
\* list comprehension with a filter, keeping order
SelectSeqBy(s, keep) ==
    IF s = <<>> THEN <<>>
    ELSE IF Head(s) \in keep THEN <<Head(s)>> \o SelectSeqBy(Tail(s), keep)
         ELSE SelectSeqBy(Tail(s), keep)

\* ---------------------------------------------------------------- state
VARIABLES
    now,               \* wall clock (datetime.utcnow), in ticks
    manifestFile,      \* <output_dir>/manifest.json
    papersFile,        \* <output_dir>/data/papers.json
    topicPages,        \* <output_dir>/topics/<topic>/<arxiv_id>.html files
    archives,          \* <output_dir>/archives/<batch_id>/{batch.json,index.html}
    indexHtml,         \* <output_dir>/index.html
    archiveIndexHtml,  \* <output_dir>/archives/index.html
    existing_papers,   \* self._existing_papers
    existing_manifest, \* self._existing_manifest
    last,              \* the latest call of build: what it found and what it did
    submitted,         \* identifiers handed to completed builds so far
    pending,           \* the latest aborted call: its input and what it was to produce
    faults,            \* number of failed writes and damaged files so far
    arg,               \* the argument of a helper called on its own
    res                \* what that helper returned

\* the output directory and the builder working on it
site == <<now, manifestFile, papersFile, topicPages, archives, indexHtml,
          archiveIndexHtml, existing_papers, existing_manifest, last, submitted,
          pending, faults>>

vars == <<now, manifestFile, papersFile, topicPages, archives, indexHtml,
          archiveIndexHtml, existing_papers, existing_manifest, last, submitted,
          pending, faults, arg, res>>

\* ---------------------------------------------------------------- helpers of the builder
_create_empty_manifest ==
    [version |-> "2.0",
     base_url |-> BaseUrl,
     last_updated |-> NoTime,
     statistics |-> [total_papers |-> 0, total_batches |-> 0],
     batches |-> <<>>,
     papers |-> <<>>,
     generated |-> NoTime,
     topics |-> <<>>]

\* datetime.isocalendar() of the tick t, two ticks to a week: the clock starts in
\* ISO week 2020-W53 (2020 has 53 ISO weeks), the weeks after it are 2021-W01,
\* 2021-W02, ...
IsoCalendar(t) ==
    LET w == t \div 2
    IN  IF w = 0 THEN <<2020, 53>> ELSE <<2021, w>>

\* "<year>-W<week:02d>", kept as the pair it formats
_get_batch_id(t) == IsoCalendar(t)

\* order of two batch ids, as of the ISO (year, week) they name
BatchLess(a, b) == a[1] < b[1] \/ (a[1] = b[1] /\ a[2] < b[2])

\* A JSON file on disk: "ok" with its parsed content, "absent", "corrupt" (its
\* load raises json.JSONDecodeError or IOError) or "undecodable" (its bytes are
\* not UTF-8: its load raises UnicodeDecodeError).
FileAbsent(empty) == [status |-> "absent", data |-> empty]
FileOk(d) == [status |-> "ok", data |-> d]
FileBad(status, empty) == [status |-> status, data |-> empty]
BadStatus == {"absent", "corrupt", "undecodable"}

\* "except (json.JSONDecodeError, IOError)": the load errors the loader handles;
\* UnicodeDecodeError is a ValueError and not among them
Caught(file) == file.status # "undecodable"

\* ---------------------------------------------------------------- load
\* _load_existing_data, manifest half: a file that exists and parses is taken as
\* it is; a missing file and a file whose load raises JSONDecodeError or IOError
\* give the empty manifest.
LoadManifest(file) ==
    IF file.status = "ok" THEN file.data ELSE _create_empty_manifest

\* a loader that always starts from an empty store
LoadPapersFresh(file) == <<>>

\* _load_existing_data, store half: data.get("papers", {}) or the empty mapping
LoadPapers(file) ==
    IF file.status = "ok" THEN file.data ELSE <<>>

\* ---------------------------------------------------------------- merge
\* PaperSummary.to_dict plus the two stamps of build
PaperData(summary, batch_id, t) ==
    [paper |-> [arxiv_id |-> summary.arxiv_id],
     topic |-> [name |-> summary.topic],
     batch_id |-> batch_id,
     indexed_at |-> t]

\* the manifest's lightweight index entry
IndexEntry(summary, batch_id) ==
    [topic |-> summary.topic, batch |-> batch_id]

\* a merge without the deduplication test
NeverExists(papers, arxiv_id) == FALSE

\* "if arxiv_id in self._existing_papers: continue"
AlreadyExists(papers, arxiv_id) == arxiv_id \in DictKeys(papers)

RECURSIVE MergeSummaries(_, _, _, _, _, _)
\* the loop of build over the incoming summaries
MergeSummaries(summaries, papers, index, new_papers, batch_id, t) ==
    IF summaries = <<>>
    THEN [papers |-> papers, index |-> index, new_papers |-> new_papers]
    ELSE LET summary == Head(summaries)
             arxiv_id == summary.arxiv_id
         IN  IF AlreadyExists(papers, arxiv_id)
             THEN MergeSummaries(Tail(summaries), papers, index, new_papers, batch_id, t)
             ELSE MergeSummaries(Tail(summaries),
                                 DictSet(papers, arxiv_id, PaperData(summary, batch_id, t)),
                                 DictSet(index, arxiv_id, IndexEntry(summary, batch_id)),
                                 Append(new_papers, summary),
                                 batch_id, t)

RECURSIVE GroupItems(_, _, _)
\* defaultdict(list): names[i] is the group of items[i]; groups keep the order of
\* first appearance, items keep their order inside a group
GroupItems(names, items, groups) ==
    IF names = <<>> THEN groups
    ELSE LET name == Head(names)
             old == IF name \in DictKeys(groups) THEN DictGet(groups, name) ELSE <<>>
         IN  GroupItems(Tail(names), Tail(items), DictSet(groups, name, Append(old, Head(items))))

ArxivIds(summaries) == [i \in 1..Len(summaries) |-> summaries[i].arxiv_id]
TopicNames(summaries) == [i \in 1..Len(summaries) |-> summaries[i].topic]

\* topic_groups of build
TopicGroups(new_papers) == GroupItems(TopicNames(new_papers), new_papers, <<>>)

RECURSIVE Flatten(_)
Flatten(groups) ==
    IF groups = <<>> THEN <<>> ELSE Head(groups).v \o Flatten(Tail(groups))

\* detail pages all written into the directory of the first topic group
DetailPageWritesOneDir(new_papers) ==
    LET flat == Flatten(TopicGroups(new_papers))
    IN  [i \in 1..Len(flat) |-> [topic |-> flat[1].topic, arxiv_id |-> flat[i].arxiv_id]]

\* the detail pages in the order step 4 writes them
DetailPageWrites(new_papers) ==
    LET flat == Flatten(TopicGroups(new_papers))
    IN  [i \in 1..Len(flat) |-> [topic |-> flat[i].topic, arxiv_id |-> flat[i].arxiv_id]]

SeqToSet(s) == {s[i] : i \in 1..Len(s)}

\* ---------------------------------------------------------------- batch bookkeeping
BatchIndex(batches, batch_id) ==
    IF \E i \in 1..Len(batches) : batches[i].id = batch_id
    THEN CHOOSE i \in 1..Len(batches) :
            /\ batches[i].id = batch_id
            /\ \A j \in 1..(i - 1) : batches[j].id # batch_id
    ELSE 0

NewBatchEntry(batch_id, papers, t) ==
    [id |-> batch_id,
     generated |-> t,
     paper_count |-> Len(papers),
     topics |-> SeqToSet(TopicNames(papers))]

\* an existing batch entry whose topics are replaced instead of united
GrowBatchEntryReplace(b, papers) ==
    [b EXCEPT !.paper_count = @ + Len(papers),
              !.topics = SeqToSet(TopicNames(papers))]

\* an existing batch entry whose count is assigned instead of incremented
GrowBatchEntryAssign(b, papers) ==
    [b EXCEPT !.paper_count = Len(papers),
              !.topics = @ \cup SeqToSet(TopicNames(papers))]

\* "+= len(papers)" and the set union of an existing batch entry
GrowBatchEntry(b, papers) ==
    [b EXCEPT !.paper_count = @ + Len(papers),
              !.topics = @ \cup SeqToSet(TopicNames(papers))]

\* a new batch entry appended at the end instead of inserted at the front
UpdateBatchesAppend(batches, batch_id, papers, t) ==
    LET i == BatchIndex(batches, batch_id)
    IN  IF i # 0
        THEN [batches EXCEPT ![i] = GrowBatchEntry(batches[i], papers)]
        ELSE Append(batches, NewBatchEntry(batch_id, papers, t))

UpdateBatches(batches, batch_id, papers, t) ==
    LET i == BatchIndex(batches, batch_id)
    IN  IF i # 0
        THEN [batches EXCEPT ![i] = GrowBatchEntry(batches[i], papers)]
        ELSE <<NewBatchEntry(batch_id, papers, t)>> \o batches

\* bookkeeping whose total counts the records of this call instead of the Store
_update_batch_infoCall(manifest, store, batch_id, papers, t) ==
    LET batches == UpdateBatches(manifest.batches, batch_id, papers, t)
    IN  [manifest EXCEPT
            !.batches = batches,
            !.statistics = [total_papers |-> Len(papers), total_batches |-> Len(batches)],
            !.last_updated = t]

_update_batch_info(manifest, store, batch_id, papers, t) ==
    LET batches == UpdateBatches(manifest.batches, batch_id, papers, t)
    IN  [manifest EXCEPT
            !.batches = batches,
            !.statistics = [total_papers |-> Len(store), total_batches |-> Len(batches)],
            !.last_updated = t]

\* ---------------------------------------------------------------- rendering
_render_batch_archive(batch_id, papers, t) ==
    [json |-> [id |-> batch_id, generated |-> t, papers |-> ArxivIds(papers)],
     html |-> [batch_id |-> batch_id,
               entries |-> GroupItems(TopicNames(papers), ArxivIds(papers), <<>>)]]

RECURSIVE CountItems(_)
\* "sum(len(items) for _, items in index_entries)"
CountItems(groups) ==
    IF groups = <<>> THEN 0 ELSE Len(Head(groups).v) + CountItems(Tail(groups))

\* an index page that lists the whole Store, whatever the batch
_render_main_indexAll(store, manifest, current_batch_id) ==
    LET values == DictValues(store)
        names == [i \in 1..Len(values) |-> values[i].topic.name]
        ids == [i \in 1..Len(values) |-> values[i].paper.arxiv_id]
        index_entries == GroupItems(names, ids, <<>>)
    IN  [index_entries |-> index_entries,
         total_papers |-> manifest.statistics.total_papers,
         total_batches |-> Len(manifest.batches),
         current_batch_id |-> current_batch_id,
         no_new_papers |-> index_entries = <<>> \/ CountItems(index_entries) = 0]

\* the Store records of the current batch, grouped by topic, the totals, and
\* whether the page shows the "no new papers this week" message instead of a list
_render_main_index(store, manifest, current_batch_id) ==
    LET values == DictValues(store)
        current == SelectSeqBy(values, {v \in SeqToSet(values) : v.batch_id = current_batch_id})
        names == [i \in 1..Len(current) |-> current[i].topic.name]
        ids == [i \in 1..Len(current) |-> current[i].paper.arxiv_id]
        index_entries == GroupItems(names, ids, <<>>)
    IN  [index_entries |-> index_entries,
         total_papers |-> manifest.statistics.total_papers,
         total_batches |-> Len(manifest.batches),
         current_batch_id |-> current_batch_id,
         no_new_papers |-> index_entries = <<>> \/ CountItems(index_entries) = 0]

_render_archive_index(manifest) == manifest.batches

\* ---------------------------------------------------------------- save
\* the legacy fields _save_manifest adds before writing
_save_manifest(manifest, t) ==
    LET index == manifest.papers
        names == [i \in 1..Len(index) |-> index[i].v.topic]
        ids == [i \in 1..Len(index) |-> index[i].k]
    IN  [manifest EXCEPT
            !.base_url = BaseUrl,
            !.generated = t,
            !.topics = GroupItems(names, ids, <<>>)]

\* a save that writes the members sorted by key (json.dumps(..., sort_keys=True))
_save_paper_dataSorted(store) ==
    [i \in 1..Len(store) |->
        CHOOSE x \in SeqToSet(store) :
            Cardinality({y \in SeqToSet(store) : y.k < x.k}) = i - 1]

\* json.dumps writes the members of a dict in insertion order
_save_paper_data(store) == store

\* ---------------------------------------------------------------- build
EmptyIndexPage ==
    [index_entries |-> <<>>, total_papers |-> 0, total_batches |-> 0,
     current_batch_id |-> <<0, 0>>, no_new_papers |-> FALSE]

NoPage == [batch_id |-> <<0, 0>>, entries |-> <<>>]

NoCall ==
    [op |-> "none", found |-> <<"none", "none">>, new_papers |-> <<>>, skipped |-> 0,
     batch_id |-> <<0, 0>>, time |-> NoTime, step |-> "none", rerun |-> FALSE,
     pages |-> <<>>, writes |-> <<>>, log |-> <<>>, returns |-> <<>>, firsts |-> {}]

NoPending ==
    [active |-> FALSE, summaries |-> <<>>, batch_id |-> <<0, 0>>,
     expect |-> [papers |-> <<>>, batches |-> <<>>, index |-> <<>>,
                 statistics |-> [total_papers |-> 0, total_batches |-> 0]]]

\* no helper called on its own
NoRes == [fn |-> "none"]

\* an empty output directory and a builder just constructed
Constructed ==
    /\ now = 0
    /\ manifestFile = FileAbsent(_create_empty_manifest)
    /\ papersFile = FileAbsent(<<>>)
    /\ topicPages = {}
    /\ archives = <<>>
    /\ indexHtml = FileAbsent(EmptyIndexPage)
    /\ archiveIndexHtml = FileAbsent(<<>>)
    /\ existing_papers = <<>>
    /\ existing_manifest = <<>>
    /\ last = NoCall
    /\ submitted = {}
    /\ pending = NoPending
    /\ faults = 0

Init ==
    /\ Constructed
    /\ arg = NoRes
    /\ res = NoRes

\* Everything one call of build computes, step by step, from the files it loads.
Run(summaries) ==
    LET loaded_manifest == LoadManifest(manifestFile)
        loaded_papers == LoadPapers(papersFile)
        batch_id == _get_batch_id(now)
        merged == MergeSummaries(summaries, loaded_papers, loaded_manifest.papers,
                                 <<>>, batch_id, now)
        new_papers == merged.new_papers
        merged_manifest == [loaded_manifest EXCEPT !.papers = merged.index]
        batched_manifest ==
            IF new_papers # <<>>
            THEN _update_batch_info(merged_manifest, merged.papers, batch_id, new_papers, now)
            ELSE merged_manifest
    IN  [batch_id |-> batch_id,
         loaded_manifest |-> loaded_manifest,
         loaded_papers |-> loaded_papers,
         new_papers |-> new_papers,
         papers |-> merged.papers,
         merged_manifest |-> merged_manifest,
         manifest |-> batched_manifest,
         pages |-> DetailPageWrites(new_papers),
         archive |-> _render_batch_archive(batch_id, new_papers, now),
         index |-> _render_main_index(merged.papers, batched_manifest, batch_id),
         archive_index |-> _render_archive_index(batched_manifest),
         saved_manifest |-> _save_manifest(batched_manifest, now),
         saved_papers |-> _save_paper_data(merged.papers)]

\* What is on disk, timestamps aside: the Store, the batches (id, paper_count),
\* the manifest index and the statistics.
Outcome(manifest, store) ==
    [papers |-> [i \in 1..Len(store) |->
                    [k |-> store[i].k, topic |-> store[i].v.topic.name,
                     batch_id |-> store[i].v.batch_id]],
     batches |-> [i \in 1..Len(manifest.batches) |->
                    [id |-> manifest.batches[i].id,
                     paper_count |-> manifest.batches[i].paper_count]],
     index |-> manifest.papers,
     statistics |-> manifest.statistics]

\* The steps of build in the order they run; a filesystem error at one of them
\* propagates out of build and leaves the writes of the earlier steps on disk.
Steps == <<"mkdir", "detail", "batch_json", "batch_html", "index", "archive_index",
           "manifest", "papers">>
StepNo(step) == CHOOSE i \in 1..Len(Steps) : Steps[i] = step
Reached(failed, step) == StepNo(step) < StepNo(failed)

\* site_config.output_dir
OutputDir == "site"

\* a build that renders and saves only when it accepted a record
RanOnlyNew(r, step) ==
    CASE step = "mkdir" -> TRUE
      [] step = "detail" -> r.pages # <<>>
      [] OTHER -> r.new_papers # <<>>

\* the step is part of this call: the batch archive is written only for new
\* papers, the detail loop writes only when a topic group exists
Ran(r, step) ==
    CASE step \in {"batch_json", "batch_html"} -> r.new_papers # <<>>
      [] step = "detail" -> r.pages # <<>>
      [] OTHER -> TRUE

\* the step was completed by a call that went as far as `step`
Done(step, s) == step = "return" \/ Reached(step, s)

\* the lines _load_existing_data prints: its except branches only assign the
\* empty default, so there is none, whatever it found
LoadLog(manifest_file, papers_file) == <<>>

\* the lines build prints: one per skipped summary inside the merge loop, then
\* the line after the batch bookkeeping
BuildLog(r, summaries, step) ==
    (IF Done(step, "mkdir")
     THEN [i \in 1..(Len(summaries) - Len(r.new_papers)) |->
              [level |-> "INFO", msg |-> "already exists, skipping"]]
     ELSE <<>>)
    \o (IF Done(step, "batch_html")
        THEN <<[level |-> "INFO",
                msg |-> IF r.new_papers # <<>> THEN "added new papers to batch"
                        ELSE "no new papers to add"]>>
        ELSE <<>>)

\* the input of a call as the caller sees it: for each identifier the page of
\* its first submission in the list
FirstSubmissions(summaries) ==
    {[topic |-> summaries[i].topic, arxiv_id |-> summaries[i].arxiv_id] :
        i \in {j \in 1..Len(summaries) :
                  \A k \in 1..(j - 1) : summaries[k].arxiv_id # summaries[j].arxiv_id}}

CallRecord(r, summaries, step) ==
    [op |-> "build", found |-> <<manifestFile.status, papersFile.status>>,
     new_papers |-> r.new_papers,
     skipped |-> Len(summaries) - Len(r.new_papers),
     batch_id |-> r.batch_id, time |-> now, step |-> step,
     rerun |-> /\ step = "return"
               /\ pending.active
               /\ pending.summaries = summaries
               /\ pending.batch_id = r.batch_id,
     pages |-> IF step = "return" THEN r.pages ELSE <<>>,
     writes |-> SelectSeqBy(Steps, {s \in SeqToSet(Steps) : Ran(r, s) /\ Done(step, s)}),
     log |-> LoadLog(manifestFile, papersFile) \o BuildLog(r, summaries, step),
     returns |-> IF step = "return" THEN <<OutputDir, "index.html">> ELSE <<>>,
     firsts |-> {f \in FirstSubmissions(summaries) :
                    f.arxiv_id \notin DictKeys(LoadPapers(papersFile))}]

\* a build that empties topics/ before it writes the detail pages
WritePagesClean(existing, pages) == SeqToSet(pages)

\* step 4: mkdir(exist_ok=True) and write_text add files to topics/, none is removed
WritePages(existing, pages) == existing \cup SeqToSet(pages)

\* a build that writes the batch archive whether or not it accepted a record
WriteArchiveAlways(existing, batch_id, new_papers, archive) ==
    (batch_id :> archive) @@ existing

\* step 5: the archive files of the batch are written inside "if new_papers"
WriteArchive(existing, batch_id, new_papers, archive) ==
    IF new_papers # <<>> THEN (batch_id :> archive) @@ existing ELSE existing

\* StaticSiteBuilder.build, a call that returns
Build(summaries) ==
    /\ Caught(manifestFile) /\ Caught(papersFile)
    /\ \E r \in {Run(summaries)} :
        /\ topicPages' = WritePages(topicPages, r.pages)
        /\ archives' = WriteArchive(archives, r.batch_id, r.new_papers, r.archive)
        /\ indexHtml' = FileOk(r.index)
        /\ archiveIndexHtml' = FileOk(r.archive_index)
        /\ manifestFile' = FileOk(r.saved_manifest)
        /\ papersFile' = FileOk(r.saved_papers)
        /\ existing_papers' = r.papers
        /\ existing_manifest' = r.saved_manifest
        /\ last' = CallRecord(r, summaries, "return")
        /\ submitted' = submitted \cup SeqToSet(ArxivIds(summaries))
        /\ pending' = NoPending
        /\ UNCHANGED <<now, faults, arg, res>>

\* the wall clock advances between calls
Tick ==
    /\ now < MaxTime
    /\ now' = now + 1
    /\ last' = NoCall
    /\ UNCHANGED <<manifestFile, papersFile, topicPages, archives, indexHtml,
                   archiveIndexHtml, existing_papers, existing_manifest, submitted,
                   pending, faults, arg, res>>

Next ==
    \/ Tick
    \/ \E summaries \in SummaryLists : Build(summaries)

Spec == Init /\ [][Next]_vars

\* ---------------------------------------------------------------- failed writes
\* A filesystem error at a step of build propagates out of it.

\* build aborted by a write error at step `failed`. `written` detail pages were
\* written before a failing detail write; truncated: a failing write_text of a
\* JSON file had already emptied the file (the write ran out of space) instead of
\* leaving it as it was (the file could not be opened).
BuildAbort(summaries) ==
    /\ faults < MaxFaults
    /\ Caught(manifestFile) /\ Caught(papersFile)
    /\ \E r \in {Run(summaries)} :
       \E failed \in SeqToSet(Steps), written \in 0..Len(r.pages), truncated \in BOOLEAN :
        /\ failed \in {"batch_json", "batch_html"} => r.new_papers # <<>>
        /\ IF failed = "detail"
           THEN written \in 0..(Len(r.pages) - 1)
           ELSE written = IF failed = "mkdir" THEN 0 ELSE Len(r.pages)
        /\ truncated => failed \in {"manifest", "papers"}
        /\ topicPages' = topicPages \cup SeqToSet(SubSeq(r.pages, 1, written))
        /\ archives' =
              IF r.new_papers = <<>> \/ ~Reached(failed, "batch_json") THEN archives
              ELSE IF Reached(failed, "batch_html")
                   THEN (r.batch_id :> r.archive) @@ archives
                   ELSE (r.batch_id :>
                            [json |-> r.archive.json,
                             html |-> IF r.batch_id \in DOMAIN archives
                                      THEN archives[r.batch_id].html ELSE NoPage])
                        @@ archives
        /\ indexHtml' = IF Reached(failed, "index") THEN FileOk(r.index) ELSE indexHtml
        /\ archiveIndexHtml' = IF Reached(failed, "archive_index")
                               THEN FileOk(r.archive_index) ELSE archiveIndexHtml
        /\ manifestFile' =
              IF Reached(failed, "manifest") THEN FileOk(r.saved_manifest)
              ELSE IF failed = "manifest" /\ truncated
                   THEN FileBad("corrupt", _create_empty_manifest)
                   ELSE manifestFile
        /\ papersFile' = IF failed = "papers" /\ truncated
                         THEN FileBad("corrupt", <<>>) ELSE papersFile
        /\ existing_papers' = IF failed = "mkdir" THEN r.loaded_papers ELSE r.papers
        /\ existing_manifest' =
              IF failed = "mkdir" THEN r.loaded_manifest
              ELSE IF failed = "detail" THEN r.merged_manifest
              ELSE IF failed \in {"manifest", "papers"} THEN r.saved_manifest
              ELSE r.manifest
        /\ last' = [CallRecord(r, summaries, failed) EXCEPT
                        !.pages = SubSeq(r.pages, 1, written)]
        /\ pending' = [active |-> TRUE, summaries |-> summaries, batch_id |-> r.batch_id,
                       expect |-> Outcome(r.saved_manifest, r.saved_papers)]
        /\ faults' = faults + 1
        /\ UNCHANGED <<now, submitted, arg, res>>

NextCrash ==
    \/ Tick
    \/ \E summaries \in SummaryLists : Build(summaries)
    \/ \E summaries \in SummaryLists : BuildAbort(summaries)

SpecCrash == Init /\ [][NextCrash]_vars

\* ---------------------------------------------------------------- damaged files
\* Between two calls manifest.json is removed or corrupted.
DamageManifest(status) ==
    /\ faults < MaxFaults
    /\ manifestFile.status = "ok"
    /\ manifestFile' = FileBad(status, _create_empty_manifest)
    /\ faults' = faults + 1
    /\ last' = NoCall
    /\ UNCHANGED <<now, papersFile, topicPages, archives, indexHtml, archiveIndexHtml,
                   existing_papers, existing_manifest, submitted, pending, arg, res>>

\* The same for data/papers.json.
DamagePapers(status) ==
    /\ faults < MaxFaults
    /\ papersFile.status = "ok"
    /\ papersFile' = FileBad(status, <<>>)
    /\ faults' = faults + 1
    /\ last' = NoCall
    /\ UNCHANGED <<now, manifestFile, topicPages, archives, indexHtml, archiveIndexHtml,
                   existing_papers, existing_manifest, submitted, pending, arg, res>>

\* build on a document that is not UTF-8: the UnicodeDecodeError leaves
\* _load_existing_data and build before anything is written, whatever the
\* summaries. The manifest is loaded first; the store is not reached when the
\* manifest raises.
BuildLoadError ==
    /\ ~(Caught(manifestFile) /\ Caught(papersFile))
    /\ existing_manifest' = IF Caught(manifestFile) THEN LoadManifest(manifestFile)
                            ELSE existing_manifest
    /\ last' = [NoCall EXCEPT !.op = "build",
                              !.found = <<manifestFile.status, papersFile.status>>,
                              !.time = now, !.step = "load"]
    /\ UNCHANGED <<now, manifestFile, papersFile, topicPages, archives, indexHtml,
                   archiveIndexHtml, existing_papers, submitted, pending, faults,
                   arg, res>>

\* The builds around a damaged file are followed within one tick of the clock.
NextFault ==
    \/ \E summaries \in SummaryLists : Build(summaries)
    \/ BuildLoadError
    \/ \E status \in BadStatus : DamageManifest(status)
    \/ \E status \in BadStatus : DamagePapers(status)

SpecFault == Init /\ [][NextFault]_vars

\* ---------------------------------------------------------------- properties
Returned(call) == call.op = "build" /\ call.step = "return"
NoDuplicates(s) == Cardinality(SeqToSet(s)) = Len(s)
BatchIds(batches) == [i \in 1..Len(batches) |-> batches[i].id]
StampedWith(store, batch_id) ==
    {store[i].k : i \in {j \in 1..Len(store) : store[j].v.batch_id = batch_id}}

\* C1: a build accepts exactly the incoming identifiers that are not yet in the
\* Store, each once, and leaves the records already stored where they are; so the
\* Store and the manifest index hold every identifier ever submitted exactly once,
\* as one build of the deduplicated input would.
C1_DedupReingestion ==
    [][Returned(last') =>
        LET old == DictKeys(papersFile.data)
            accepted == ArxivIds(last'.new_papers)
        IN  /\ SeqToSet(accepted) \cap old = {}
            /\ NoDuplicates(accepted)
            /\ Len(papersFile'.data) >= Len(papersFile.data)
            /\ \A i \in 1..Len(papersFile.data) : papersFile'.data[i].k = papersFile.data[i].k
            /\ DictKeys(papersFile'.data) = old \cup SeqToSet(accepted)
            /\ DictKeys(papersFile'.data) = submitted'
            /\ Len(papersFile'.data) = Cardinality(submitted')
            /\ DictKeys(manifestFile'.data.papers) = submitted'
            /\ Len(manifestFile'.data.papers) = Cardinality(submitted')]_vars

C1_Witness ==
    /\ Returned(last)
    /\ last.skipped > 0
    /\ last.new_papers # <<>>
    /\ Len(papersFile.data) > Len(last.new_papers)

\* C2: a record persisted in the Paper Store keeps its content, its batch_id and
\* indexed_at stamps and its manifest index entry in every later step.
C2_AtMostOnce ==
    [][papersFile.status = "ok" =>
        \A i \in 1..Len(papersFile.data) :
            LET key == papersFile.data[i].k
            IN  /\ key \in DictKeys(papersFile'.data)
                /\ DictGet(papersFile'.data, key) = papersFile.data[i].v
                /\ key \in DictKeys(manifestFile.data.papers)
                /\ key \in DictKeys(manifestFile'.data.papers)
                /\ DictGet(manifestFile'.data.papers, key)
                      = DictGet(manifestFile.data.papers, key)]_vars

C2_Witness ==
    /\ Returned(last)
    /\ last.skipped > 0
    /\ \E i \in 1..Len(papersFile.data) :
          /\ papersFile.data[i].v.indexed_at < last.time
          /\ papersFile.data[i].v.batch_id # last.batch_id

\* C4: every batch entry of the manifest is still there after any step, with a
\* paper_count grown by exactly the number of records a build of its week accepted
\* (by nothing otherwise) and a topic set grown by exactly their topics.
C4_BatchMonotone ==
    [][LET old == manifestFile.data.batches
           new == manifestFile'.data.batches
       IN  \A i \in 1..Len(old) :
             \E j \in 1..Len(new) :
                LET grows == Returned(last') /\ last'.batch_id = old[i].id
                IN  /\ new[j].id = old[i].id
                    /\ new[j].paper_count >= old[i].paper_count
                    /\ old[i].topics \subseteq new[j].topics
                    /\ new[j].paper_count = old[i].paper_count
                          + (IF grows THEN Len(last'.new_papers) ELSE 0)
                    /\ new[j].topics = old[i].topics
                          \cup (IF grows THEN SeqToSet(TopicNames(last'.new_papers)) ELSE {})]_vars

C4_Witness ==
    /\ Returned(last)
    /\ last.new_papers # <<>>
    /\ \E i \in 1..Len(manifestFile.data.batches) :
          /\ manifestFile.data.batches[i].id = last.batch_id
          /\ manifestFile.data.batches[i].paper_count > Len(last.new_papers)
          /\ Cardinality(manifestFile.data.batches[i].topics) > 1

\* C5: while every build so far ran in the ISO week of the first one, starting from
\* an empty output directory, papers.json has one entry per distinct identifier
\* submitted and the manifest has a single batch entry whose paper_count is that
\* same number.
C5_EndToEndCount ==
    (Returned(last) /\ _get_batch_id(now) = _get_batch_id(0)) =>
        LET batches == manifestFile.data.batches
            n == Cardinality(submitted)
        IN  /\ Len(papersFile.data) = n
            /\ n > 0 => /\ Len(batches) = 1
                        /\ batches[1].id = _get_batch_id(now)
                        /\ batches[1].paper_count = n
            /\ n = 0 => batches = <<>>

C5_Witness ==
    /\ Returned(last)
    /\ _get_batch_id(now) = _get_batch_id(0)
    /\ last.skipped > 0
    /\ last.new_papers # <<>>
    /\ Len(manifestFile.data.batches) = 1
    /\ manifestFile.data.batches[1].paper_count = Len(last.new_papers) + last.skipped
    /\ Len(papersFile.data) = Len(last.new_papers) + last.skipped

\* C3: after any build that returns, whatever it loaded, the statistics of the
\* persisted manifest are the size of the Paper Store and the length of the batch list.
C3_StatisticsInvariant ==
    Returned(last) =>
        /\ manifestFile.data.statistics.total_papers = Len(papersFile.data)
        /\ manifestFile.data.statistics.total_batches = Len(manifestFile.data.batches)

\* C6: a build that returns after an aborted build of the same input in the same
\* ISO week leaves the Store, the batches, the manifest index and the statistics
\* that the aborted build would have left had it run to its end.
C6_RerunRederives ==
    [][(Returned(last') /\ last'.rerun) =>
        Outcome(manifestFile'.data, papersFile'.data) = pending.expect]_vars

\* C7: a build that finds a document absent or failing to parse or read returns
\* with both documents written; the bad document counts as its empty default (the
\* manifest written then holds the version tag, only the records accepted now in
\* its index and at most the current batch), and a document that loads keeps all
\* it held, whatever the state of the other one (the merge only adds to it, or
\* rewrites the index entry of a record it accepts).
C7_CorruptLoadNonFatal ==
    [][last'.op = "build" =>
          /\ Returned(last')
          /\ LET accepted == SeqToSet(ArxivIds(last'.new_papers))
                 manifest == manifestFile'.data
             IN  /\ manifestFile'.status = "ok" /\ papersFile'.status = "ok"
                 /\ manifest.version = "2.0"
                 /\ manifestFile.status # "ok" =>
                       /\ DictKeys(manifest.papers) = accepted
                       /\ BatchIds(manifest.batches)
                             = (IF accepted = {} THEN <<>> ELSE <<last'.batch_id>>)
                       /\ manifest.statistics.total_batches = Len(manifest.batches)
                       /\ accepted = {} =>
                             /\ manifest.statistics.total_papers = 0
                             /\ manifest.last_updated = NoTime
                 /\ manifestFile.status = "ok" =>
                       /\ Len(manifest.papers) >= Len(manifestFile.data.papers)
                       /\ \A i \in 1..Len(manifestFile.data.papers) :
                             /\ manifest.papers[i].k = manifestFile.data.papers[i].k
                             /\ manifest.papers[i].k \notin accepted =>
                                   manifest.papers[i] = manifestFile.data.papers[i]
                       /\ \A i \in 1..Len(manifestFile.data.batches) :
                             manifestFile.data.batches[i].id
                                \in SeqToSet(BatchIds(manifest.batches))
                 /\ papersFile.status # "ok" =>
                       DictKeys(papersFile'.data) = accepted
                 /\ papersFile.status = "ok" =>
                       /\ Len(papersFile'.data) >= Len(papersFile.data)
                       /\ \A i \in 1..Len(papersFile.data) :
                             papersFile'.data[i] = papersFile.data[i]
                       /\ DictKeys(papersFile'.data)
                             = DictKeys(papersFile.data) \cup accepted]_vars

\* C8: every build that returns leaves last_updated at the time of that build.
C8_LastUpdatedEveryBuild ==
    Returned(last) => manifestFile.data.last_updated = last.time

\* C9: after a build that accepted a record, batch.json of the current batch has
\* the current batch id and lists exactly the Store records stamped with it.
C9_BatchJsonMembers ==
    (Returned(last) /\ last.new_papers # <<>>) =>
        /\ last.batch_id \in DOMAIN archives
        /\ archives[last.batch_id].json.id = last.batch_id
        /\ NoDuplicates(archives[last.batch_id].json.papers)
        /\ SeqToSet(archives[last.batch_id].json.papers)
              = StampedWith(papersFile.data, last.batch_id)

\* C10: the batch list never names a batch twice and is strictly decreasing in ISO
\* (year, week); its ids change only by a build that accepted a record putting the
\* current batch id in front.
C10_BatchListShape ==
    [][LET old == manifestFile.data.batches
           new == manifestFile'.data.batches
       IN  /\ \A i, j \in 1..Len(new) : i < j => BatchLess(new[j].id, new[i].id)
           /\ BatchIds(new) # BatchIds(old) =>
                /\ Returned(last')
                /\ last'.new_papers # <<>>
                /\ BatchIds(new) = <<last'.batch_id>> \o BatchIds(old)]_vars

C10_Witness ==
    /\ Returned(last)
    /\ Len(manifestFile.data.batches) >= 2
    /\ manifestFile.data.batches[1].id = last.batch_id
    /\ manifestFile.data.batches[1].paper_count = Len(last.new_papers)

\* the identifiers a grouped page lists
Listed(groups) == UNION {SeqToSet(groups[i].v) : i \in 1..Len(groups)}

\* C11: the index.html a build leaves lists, each once and under its stored topic,
\* exactly the Store records stamped with the batch id of that build, and shows the
\* "no new papers this week" message exactly when there is none.
C11_IndexScoping ==
    Returned(last) =>
        LET page == indexHtml.data
            current == StampedWith(papersFile.data, last.batch_id)
        IN  /\ indexHtml.status = "ok"
            /\ page.current_batch_id = last.batch_id
            /\ Listed(page.index_entries) = current
            /\ CountItems(page.index_entries) = Cardinality(current)
            /\ \A i \in 1..Len(page.index_entries) :
                  \A id \in SeqToSet(page.index_entries[i].v) :
                     DictGet(papersFile.data, id).topic.name = page.index_entries[i].k
            /\ page.no_new_papers <=> current = {}

\* a build that accepted nothing, in a week that got a record from an earlier
\* build, on a Store that also holds a record of an earlier week
C11_Witness ==
    /\ Returned(last)
    /\ last.new_papers = <<>>
    /\ StampedWith(papersFile.data, last.batch_id) # {}
    /\ StampedWith(papersFile.data, last.batch_id) # DictKeys(papersFile.data)
    /\ ~indexHtml.data.no_new_papers

\* position of x in a sequence without repeats
Pos(seq, x) == CHOOSE p \in 1..Len(seq) : seq[p] = x

\* the groups of a page hold the identifiers ids (topics[p] being the topic of
\* ids[p]) each once under its topic, in the order of ids inside a group, the
\* groups in the order in which their topics first appear in topics
OrderedLike(groups, ids, topics) ==
    \A pos \in {[x \in SeqToSet(ids) |-> Pos(ids, x)]} :
        /\ Listed(groups) = SeqToSet(ids)
        /\ CountItems(groups) = Len(ids)
        /\ \A i \in 1..Len(groups) :
              /\ groups[i].v # <<>>
              /\ \A a \in 1..Len(groups[i].v) :
                    /\ topics[pos[groups[i].v[a]]] = groups[i].k
                    /\ \A b \in 1..Len(groups[i].v) :
                          a < b => pos[groups[i].v[a]] < pos[groups[i].v[b]]
        /\ \A i, j \in 1..Len(groups) :
              i < j => /\ groups[i].k # groups[j].k
                       /\ pos[groups[i].v[1]] < pos[groups[j].v[1]]

\* C12: a build appends the records it accepts to papers.json in the order the
\* caller gave them, and the file loads back in that order; the index page lists
\* the records of the current week in that Store order inside each topic group,
\* the groups in order of first appearance of their topic; the batch archive page
\* does the same with the records accepted by this build.
C12_OrderingRule ==
    [][Returned(last') =>
        \A store \in {LoadPapers(papersFile')} :
        \A current \in {SelectSeqBy(DictValues(store),
                            {v \in SeqToSet(DictValues(store)) :
                                v.batch_id = last'.batch_id})} :
        \A accepted \in {last'.new_papers} :
            /\ [i \in 1..Len(store) |-> store[i].k]
                  = [i \in 1..Len(papersFile.data) |-> papersFile.data[i].k]
                       \o ArxivIds(accepted)
            /\ \A ids \in {[i \in 1..Len(current) |-> current[i].paper.arxiv_id]} :
               \A topics \in {[i \in 1..Len(current) |-> current[i].topic.name]} :
                  OrderedLike(indexHtml'.data.index_entries, ids, topics)
            /\ accepted # <<>> =>
                  \A ids \in {ArxivIds(accepted)} :
                  \A topics \in {TopicNames(accepted)} :
                     OrderedLike(archives'[last'.batch_id].html.entries, ids, topics)]_vars

\* an index page listing "nlp" before "apr", the first group from an earlier build
\* of the week and the second from this build, whose archive page has that group
C12_Witness ==
    /\ Returned(last)
    /\ Len(last.new_papers) = 1
    /\ Len(indexHtml.data.index_entries) = 2
    /\ indexHtml.data.index_entries[1].k = "nlp"
    /\ indexHtml.data.index_entries[2].k = "apr"
    /\ Len(archives[last.batch_id].html.entries) = 1
    /\ archives[last.batch_id].html.entries[1].k = "apr"

\* ---------------------------------------------------------------- score formatting
\* A DimensionScore: a name, a weight, and a value counted in
\* halves (value = 1 is 0.5, value = 2 is 1.0) so that the sums are exact.
MaxWeight == 2
MaxScores == 2
ValueUnit == 2
DimensionScore == [name : {"relevance"}, weight : 0..MaxWeight, value : 0..ValueUnit]
ScoreLists == SeqsUpTo(DimensionScore, MaxScores)

RECURSIVE SumSeq(_)
SumSeq(q) == IF q = <<>> THEN 0 ELSE Head(q) + SumSeq(Tail(q))

\* n/d rounded to an integer the way the format specification rounds: to the
\* nearest, an exact half to the even neighbour
RoundHalfEven(n, d) ==
    LET q == n \div d
        r == n % d
    IN  IF 2 * r > d \/ (2 * r = d /\ q % 2 = 1) THEN q + 1 ELSE q

\* the text of f"{x:.1f}" for x counted in tenths
OneDecimal(tenths) == [whole |-> tenths \div 10, frac |-> tenths % 10]

\* float(text), counted in tenths
ParseFloat(text) == text.whole * 10 + text.frac

\* the plain mean of the values, the weights ignored
_format_scoreUnweighted(scores) ==
    LET total_weight == IF Len(scores) = 0 THEN 1 ELSE Len(scores)
        value == SumSeq([i \in 1..Len(scores) |-> scores[i].value])
    IN  OneDecimal(RoundHalfEven(value * 100 * 10, total_weight * ValueUnit))

_format_score(scores) ==
    LET weights == SumSeq([i \in 1..Len(scores) |-> scores[i].weight])
        total_weight == IF weights = 0 THEN 1 ELSE weights
        value == SumSeq([i \in 1..Len(scores) |-> scores[i].weight * scores[i].value])
    IN  OneDecimal(RoundHalfEven(value * 100 * 10, total_weight * ValueUnit))

\* the "score" member of the entry build puts in the manifest index
IndexScore(scores) == ParseFloat(_format_score(scores))

InitScore ==
    /\ Constructed
    /\ arg \in {[fn |-> "score", scores |-> q] : q \in ScoreLists}
    /\ res = NoRes

FormatScore ==
    /\ arg.fn = "score"
    /\ res = NoRes
    /\ res' = [fn |-> "score", text |-> _format_score(arg.scores),
               index_score |-> IndexScore(arg.scores)]
    /\ UNCHANGED <<site, arg>>

SpecScore == InitScore /\ [][FormatScore]_vars

Abs(x) == IF x < 0 THEN -x ELSE x

\* C13: the score text is 100 * sum(weight * value) / sum(weight) to one decimal
\* place (within half a tenth of the exact quotient, one digit after the point),
\* the divisor being 1 when the weights sum to zero, and the score of the
\* manifest index entry is the number that text denotes.
C13_FormatScore ==
    res.fn = "score" =>
        LET scores == arg.scores
            weights == SumSeq([i \in 1..Len(scores) |-> scores[i].weight])
            divisor == IF weights = 0 THEN 1 ELSE weights
            value == SumSeq([i \in 1..Len(scores) |-> scores[i].weight * scores[i].value])
            tenths == res.text.whole * 10 + res.text.frac
        IN  /\ res.text.frac \in 0..9
            /\ res.text.whole >= 0
            /\ Abs(2 * tenths * divisor * ValueUnit - 2 * value * 100 * 10)
                  <= divisor * ValueUnit
            /\ res.index_score = tenths

\* unequal weights whose quotient is not a whole number of tenths: 0.5 and 1.0
\* weighted 1 and 2 give 83.3
C13_Witness ==
    /\ res.fn = "score"
    /\ arg.scores = <<[name |-> "relevance", weight |-> 1, value |-> 1],
                     [name |-> "relevance", weight |-> 2, value |-> 2]>>
    /\ res.text = [whole |-> 83, frac |-> 3]
    /\ res.index_score = 833

\* ---------------------------------------------------------------- serialization
\* Python's None and a present value of an Optional field
None == [none |-> TRUE]
Some(x) == [some |-> x]

\* "if value" of an optional record or date text: None is false, a dict with
\* members and the text of isoformat, which is never empty, are true
Truthy(o) == o # None

TopicConfig(name) == [name |-> name, label |-> IF name = "apr" THEN "Program Repair" ELSE "NLP"]

\* a datetime: the day, the microsecond, and whether it carries a UTC offset
DateTimes == [day : 0..MaxTime, microsecond : {0, 5}, tzinfo : {"naive", "utc"}]

\* datetime.isoformat(): the fraction is printed only when the microsecond is not
\* zero, the offset only for an aware datetime
isoformat(d) ==
    [date |-> d.day,
     fraction |-> IF d.microsecond = 0 THEN None ELSE Some(d.microsecond),
     offset |-> IF d.tzinfo = "naive" THEN None ELSE Some("+00:00")]

\* datetime.fromisoformat(text)
fromisoformat(text) ==
    [day |-> text.date,
     microsecond |-> IF text.fraction = None THEN 0 ELSE text.fraction.some,
     tzinfo |-> IF text.offset = None THEN "naive" ELSE "utc"]

\* float(x) of a number
Float(x) == x + 0

PaperCandidates ==
    {[topic |-> TopicConfig(IF arxiv_id % 2 = 0 THEN "apr" ELSE "nlp"),
      arxiv_id |-> arxiv_id, title |-> "title", abstract |-> "",
      authors |-> <<"a", "b">>, categories |-> <<"cs.SE">>,
      published |-> published, updated |-> published,
      arxiv_url |-> "https://arxiv.org/abs/1", pdf_url |-> None,
      affiliations |-> <<>>, comment |-> comment] :
        arxiv_id \in Ids, published \in DateTimes,
        comment \in {None, Some(""), Some("ICSE")}}

CoreSummaries ==
    {None,
     Some([problem |-> "", solution |-> "", methodology |-> "", experiments |-> "",
           conclusion |-> ""]),
     Some([problem |-> "p", solution |-> "s", methodology |-> "", experiments |-> "e",
           conclusion |-> "c"])}

TaskItems == {[question |-> "q", reason |-> "r"]}

\* the PaperSummary objects the round trip is applied to
FullPaperSummary ==
    {[paper |-> paper, topic |-> paper.topic, core_summary |-> core_summary,
      task_list |-> work[1], findings |-> work[2], overview |-> "o",
      score_details |-> [paper |-> paper, scores |-> scores,
                         total_score |-> SumSeq([i \in 1..Len(scores) |-> scores[i].value])],
      markdown |-> markdown, brief_summary |-> brief_summary] :
        paper \in PaperCandidates, core_summary \in CoreSummaries,
        work \in {<<<<>>, <<>>>>} \cup {<<<<t>>, <<f>>>> : t \in TaskItems,
                     f \in {[task |-> i, answer |-> "a", confidence |-> 1] : i \in TaskItems}},
        scores \in {q \in ScoreLists : Len(q) <= 1},
        markdown \in {"", "# md"}, brief_summary \in {"", "brief"}}

PaperCandidate_to_dict(self) ==
    [topic_name |-> self.topic.name, arxiv_id |-> self.arxiv_id, title |-> self.title,
     abstract |-> self.abstract, authors |-> self.authors,
     categories |-> self.categories,
     published |-> IF Truthy(self.published) THEN Some(isoformat(self.published)) ELSE None,
     updated |-> IF Truthy(self.updated) THEN Some(isoformat(self.updated)) ELSE None,
     arxiv_url |-> self.arxiv_url, pdf_url |-> self.pdf_url,
     affiliations |-> self.affiliations, comment |-> self.comment]

\* utcnow stands for datetime.utcnow() at the time of the call
PaperCandidate_from_dict(data, topic, utcnow) ==
    [topic |-> topic, arxiv_id |-> data.arxiv_id, title |-> data.title,
     abstract |-> data.abstract, authors |-> data.authors,
     categories |-> data.categories,
     published |-> IF Truthy(data.published) THEN fromisoformat(data.published.some)
                   ELSE utcnow,
     updated |-> IF Truthy(data.updated) THEN fromisoformat(data.updated.some)
                 ELSE utcnow,
     arxiv_url |-> data.arxiv_url, pdf_url |-> data.pdf_url,
     affiliations |-> data.affiliations, comment |-> data.comment]

DimensionScore_to_dict(self) ==
    [name |-> self.name, weight |-> self.weight, value |-> self.value]
DimensionScore_from_dict(data) ==
    [name |-> data.name, weight |-> Float(data.weight), value |-> Float(data.value)]

ScoredPaper_to_dict(self) ==
    [arxiv_id |-> self.paper.arxiv_id, title |-> self.paper.title,
     total_score |-> self.total_score,
     scores |-> [i \in 1..Len(self.scores) |-> DimensionScore_to_dict(self.scores[i])]]

ScoredPaper_from_dict(data, paper) ==
    [paper |-> paper,
     scores |-> [i \in 1..Len(data.scores) |-> DimensionScore_from_dict(data.scores[i])],
     total_score |-> Float(data.total_score)]

TaskItem_to_dict(self) == [question |-> self.question, reason |-> self.reason]
TaskItem_from_dict(data) == [question |-> data.question, reason |-> data.reason]

TaskFinding_to_dict(self) ==
    [task |-> TaskItem_to_dict(self.task), answer |-> self.answer,
     confidence |-> self.confidence]
TaskFinding_from_dict(data) ==
    [task |-> TaskItem_from_dict(data.task), answer |-> data.answer,
     confidence |-> Float(data.confidence)]

CoreSummary_to_dict(self) ==
    [problem |-> self.problem, solution |-> self.solution,
     methodology |-> self.methodology, experiments |-> self.experiments,
     conclusion |-> self.conclusion]
CoreSummary_from_dict(data) ==
    [problem |-> data.problem, solution |-> data.solution,
     methodology |-> data.methodology, experiments |-> data.experiments,
     conclusion |-> data.conclusion]

PaperSummary_to_dict(self) ==
    [paper |-> PaperCandidate_to_dict(self.paper),
     topic |-> [name |-> self.topic.name, label |-> self.topic.label],
     core_summary |-> IF Truthy(self.core_summary)
                      THEN Some(CoreSummary_to_dict(self.core_summary.some)) ELSE None,
     task_list |-> [i \in 1..Len(self.task_list) |-> TaskItem_to_dict(self.task_list[i])],
     findings |-> [i \in 1..Len(self.findings) |-> TaskFinding_to_dict(self.findings[i])],
     overview |-> self.overview, brief_summary |-> self.brief_summary,
     score_details |-> ScoredPaper_to_dict(self.score_details)]

\* a reload that takes the brief summary for a transient field like the markdown
PaperSummary_from_dictNoBrief(data, topic_config, utcnow) ==
    LET paper == PaperCandidate_from_dict(data.paper, topic_config, utcnow)
    IN  [paper |-> paper, topic |-> topic_config,
         core_summary |-> IF Truthy(data.core_summary)
                          THEN Some(CoreSummary_from_dict(data.core_summary.some))
                          ELSE None,
         task_list |-> [i \in 1..Len(data.task_list) |-> TaskItem_from_dict(data.task_list[i])],
         findings |-> [i \in 1..Len(data.findings) |-> TaskFinding_from_dict(data.findings[i])],
         overview |-> data.overview,
         score_details |-> ScoredPaper_from_dict(data.score_details, paper),
         markdown |-> "", brief_summary |-> ""]

PaperSummary_from_dict(data, topic_config, utcnow) ==
    LET paper == PaperCandidate_from_dict(data.paper, topic_config, utcnow)
    IN  [paper |-> paper, topic |-> topic_config,
         core_summary |-> IF Truthy(data.core_summary)
                          THEN Some(CoreSummary_from_dict(data.core_summary.some))
                          ELSE None,
         task_list |-> [i \in 1..Len(data.task_list) |-> TaskItem_from_dict(data.task_list[i])],
         findings |-> [i \in 1..Len(data.findings) |-> TaskFinding_from_dict(data.findings[i])],
         overview |-> data.overview,
         score_details |-> ScoredPaper_from_dict(data.score_details, paper),
         markdown |-> "", brief_summary |-> data.brief_summary]

InitRoundTrip ==
    /\ Constructed
    /\ arg \in {[fn |-> "round_trip", s |-> s] : s \in FullPaperSummary}
    /\ res = NoRes

RoundTrip ==
    /\ arg.fn = "round_trip"
    /\ res = NoRes
    /\ res' = [fn |-> "round_trip", data |-> PaperSummary_to_dict(arg.s),
               s |-> PaperSummary_from_dict(PaperSummary_to_dict(arg.s), arg.s.topic,
                                            [day |-> now, microsecond |-> 0,
                                             tzinfo |-> "naive"])]
    /\ UNCHANGED <<site, arg>>

SpecRoundTrip == InitRoundTrip /\ [][RoundTrip]_vars

\* C14: PaperSummary.from_dict(s.to_dict(), t) equals s in the paper fields, the
\* topic, the core summary, the task list, the findings, the overview, the brief
\* summary, the dimension scores and the total score; the markdown is empty.
C14_RoundTrip ==
    res.fn = "round_trip" =>
        /\ res.s.paper = arg.s.paper
        /\ res.s.topic = arg.s.topic
        /\ res.s.core_summary = arg.s.core_summary
        /\ res.s.task_list = arg.s.task_list
        /\ res.s.findings = arg.s.findings
        /\ res.s.overview = arg.s.overview
        /\ res.s.brief_summary = arg.s.brief_summary
        /\ res.s.score_details.scores = arg.s.score_details.scores
        /\ res.s.score_details.total_score = arg.s.score_details.total_score
        /\ res.s.markdown = ""

\* a summary with markdown, a brief summary, a core summary with an empty aspect,
\* a task, a finding, a score, an aware publication time with microseconds and an
\* empty comment has been serialized and reloaded
C14_Witness ==
    /\ res.fn = "round_trip"
    /\ arg.s.markdown # ""
    /\ arg.s.brief_summary # ""
    /\ arg.s.core_summary # None
    /\ arg.s.core_summary.some.methodology = ""
    /\ arg.s.core_summary.some.problem # ""
    /\ arg.s.task_list # <<>>
    /\ arg.s.findings # <<>>
    /\ arg.s.score_details.scores # <<>>
    /\ arg.s.paper.published.microsecond # 0
    /\ arg.s.paper.published.tzinfo = "utc"
    /\ arg.s.paper.comment = Some("")
    /\ res.data.paper.published.some.fraction # None
    /\ res.s # arg.s

\* ---------------------------------------------------------------- escaping
\* A text is a sequence of characters; rendered text is a sequence of tokens, a
\* token being a character, a character reference or the line-break element.
MaxText == 2
Texts == SeqsUpTo({"n", "\\", "\n", "<", ">", "&", "\"", "'"}, MaxText)
Plain == <<"n">>

\* html.escape(text, quote=False)
_escapeNoQuote(text) ==
    [i \in 1..Len(text) |->
        CASE text[i] = "&" -> "&amp;"
          [] text[i] = "<" -> "&lt;"
          [] text[i] = ">" -> "&gt;"
          [] OTHER -> text[i]]

\* html.escape(text or "", quote=True)
_escape(text) ==
    [i \in 1..Len(text) |->
        CASE text[i] = "&" -> "&amp;"
          [] text[i] = "<" -> "&lt;"
          [] text[i] = ">" -> "&gt;"
          [] text[i] = "\"" -> "&quot;"
          [] text[i] = "'" -> "&#x27;"
          [] OTHER -> text[i]]

RECURSIVE Strip(_)
\* str.strip(): the newline is the only whitespace among the characters
Strip(text) ==
    IF text = <<>> THEN text
    ELSE IF Head(text) = "\n" THEN Strip(Tail(text))
    ELSE IF text[Len(text)] = "\n" THEN Strip(SubSeq(text, 1, Len(text) - 1))
    ELSE text

RECURSIVE SplitParagraphs(_, _)
\* text.split("\n\n"), cur being the piece that is being read
SplitParagraphs(text, cur) ==
    IF text = <<>> THEN <<cur>>
    ELSE IF Len(text) >= 2 /\ text[1] = "\n" /\ text[2] = "\n"
         THEN <<cur>> \o SplitParagraphs(SubSeq(text, 3, Len(text)), <<>>)
         ELSE SplitParagraphs(Tail(text), Append(cur, Head(text)))

\* [p.strip() for p in brief_summary.split("\n\n") if p.strip()]
Paragraphs(text) ==
    LET pieces == SplitParagraphs(text, <<>>)
        stripped == [i \in 1..Len(pieces) |-> Strip(pieces[i])]
    IN  SelectSeqBy(stripped, {q \in SeqToSet(stripped) : q # <<>>})

RECURSIVE BreakEscapedNewlines(_)
\* .replace("\\n", "<br/>"): a backslash followed by the letter n
BreakEscapedNewlines(tokens) ==
    IF tokens = <<>> THEN <<>>
    ELSE IF Len(tokens) >= 2 /\ tokens[1] = "\\" /\ tokens[2] = "n"
         THEN <<"<br/>">> \o BreakEscapedNewlines(SubSeq(tokens, 3, Len(tokens)))
         ELSE <<Head(tokens)>> \o BreakEscapedNewlines(Tail(tokens))

\* .replace("\n", "<br/>")
BreakNewlines(tokens) ==
    [i \in 1..Len(tokens) |-> IF tokens[i] = "\n" THEN "<br/>" ELSE tokens[i]]

RECURSIVE Join(_)
\* ", ".join(texts)
Join(texts) ==
    IF texts = <<>> THEN <<>>
    ELSE IF Len(texts) = 1 THEN texts[1]
    ELSE texts[1] \o <<",", " ">> \o Join(Tail(texts))

\* a piece of a page: markup of the template, or the rendering of a field
Template(markup) == [origin |-> "template", text |-> <<markup>>]
Field(origin, tokens) == [origin |-> origin, text |-> tokens]

\* the free-text fields of a summary
TextFields ==
    {"title", "arxiv_url", "arxiv_id", "author", "topic_label", "comment",
     "brief_summary", "problem", "solution", "methodology", "experiments",
     "conclusion", "task_question", "task_reason", "finding_question", "answer",
     "overview"}

\* a summary whose field `field` holds `text`, the others a plain word
SummaryWith(field, text) ==
    LET T(f) == IF f = field THEN text ELSE Plain
    IN  [paper |-> [arxiv_id |-> T("arxiv_id"), title |-> T("title"),
                    authors |-> <<T("author"), Plain>>,
                    arxiv_url |-> T("arxiv_url"), comment |-> T("comment")],
         topic |-> [name |-> "apr", label |-> T("topic_label")],
         core_summary |-> [problem |-> T("problem"), solution |-> T("solution"),
                           methodology |-> T("methodology"),
                           experiments |-> T("experiments"),
                           conclusion |-> T("conclusion")],
         task_list |-> <<[question |-> T("task_question"), reason |-> T("task_reason")]>>,
         findings |-> <<[task |-> [question |-> T("finding_question"), reason |-> Plain],
                         answer |-> T("answer")]>>,
         overview |-> T("overview"),
         brief_summary |-> T("brief_summary")]

RECURSIVE Concat(_)
Concat(seqs) == IF seqs = <<>> THEN <<>> ELSE Head(seqs) \o Concat(Tail(seqs))

\* the detail page of a summary
_render_paper(summary) ==
    LET paper == summary.paper
        title == _escape(paper.title)
        brief_summary == Strip(summary.brief_summary)
        paragraphs == Paragraphs(brief_summary)
        core == summary.core_summary
        aspects == <<<<"problem", core.problem>>, <<"solution", core.solution>>,
                     <<"methodology", core.methodology>>,
                     <<"experiments", core.experiments>>,
                     <<"conclusion", core.conclusion>>>>
        shown == SelectSeqBy(aspects, {a \in SeqToSet(aspects) : Strip(a[2]) # <<>>})
    IN  <<Template("<title>"), Field("title", title), Template("</title>"),
          Template("<span class='sidebar-info-value'>"),
          Field("topic_label", _escape(summary.topic.label)), Template("</span>"),
          Template("<a href='"), Field("arxiv_url", _escape(paper.arxiv_url)),
          Template("' target='_blank' rel='noopener'>"),
          Field("arxiv_id", _escape(paper.arxiv_id)), Template("</a>"),
          Template("<h1 class='paper-title'>"), Field("title", title), Template("</h1>"),
          Template("<span class='meta-value'>"),
          Field("authors", _escape(Join(paper.authors))), Template("</span>")>>
        \o (IF paper.comment # <<>>
            THEN <<Template("<span class='meta-value'>"),
                   Field("comment", _escape(paper.comment)), Template("</span>")>>
            ELSE <<>>)
        \o (IF brief_summary # <<>>
            THEN Concat([i \in 1..Len(paragraphs) |->
                    <<Template("<p>"),
                      Field("brief_summary", BreakEscapedNewlines(_escape(paragraphs[i]))),
                      Template("</p>")>>])
            ELSE <<>>)
        \o Concat([i \in 1..Len(shown) |->
                    <<Template("<p>"),
                      Field(shown[i][1], BreakEscapedNewlines(_escape(shown[i][2]))),
                      Template("</p>")>>])
        \o Concat([i \in 1..Len(summary.task_list) |->
                    <<Template("<span class='todo-question'>"),
                      Field("task_question", _escape(summary.task_list[i].question)),
                      Template("</span>"), Template("<span class='todo-reason'>"),
                      Field("task_reason", _escape(summary.task_list[i].reason)),
                      Template("</span>")>>])
        \o Concat([i \in 1..Len(summary.findings) |->
                    <<Template("<h3>"),
                      Field("finding_question", _escape(summary.findings[i].task.question)),
                      Template("</h3>"), Template("<p>"),
                      Field("answer", BreakNewlines(_escape(summary.findings[i].answer))),
                      Template("</p>")>>])
        \o <<Template("<p>"), Field("overview", BreakNewlines(_escape(summary.overview))),
             Template("</p>")>>

\* the items of one topic section of a listing page; prefix leads to the site root
PaperItems(prefix, topic_name, topic_papers) ==
    Concat([i \in 1..Len(topic_papers) |->
        LET paper == topic_papers[i].paper
            url == <<prefix, "topics/", topic_name, "/">> \o paper.arxiv_id \o <<".html">>
            author_preview == Join(SubSeq(paper.authors, 1,
                                          IF Len(paper.authors) > 3 THEN 3
                                          ELSE Len(paper.authors)))
                                 \o (IF Len(paper.authors) > 3 THEN <<", ...">> ELSE <<>>)
        IN  <<Template("<a href='"), Field("url", _escape(url)), Template("'>"),
              Field("title", _escape(paper.title)), Template("</a>")>>
            \o (IF paper.authors # <<>>
                THEN <<Template("<span class='paper-meta-item'>"),
                       Field("authors", _escape(author_preview)), Template("</span>")>>
                ELSE <<>>)])

\* the topic sections of a listing page
TopicSections(prefix, groups) ==
    Concat([g \in 1..Len(groups) |->
        <<Template("<h2 class='topic-title'>"),
          Field("topic_label", _escape(groups[g].v[1].topic.label)), Template("</h2>")>>
        \o PaperItems(prefix, groups[g].k, groups[g].v)])

\* the current-batch index page: the sidebar, then the sections
_render_index_with_archives(index_entries) ==
    Concat([g \in 1..Len(index_entries) |->
        <<Template("<li><a href='#topic'>"),
          Field("topic_label", _escape(index_entries[g].v[1].topic.label)),
          Template("</a></li>")>>])
    \o (IF index_entries = <<>> \/ CountItems(index_entries) = 0
        THEN <<Template("<p>No new papers this week.</p>")>>
        ELSE TopicSections("", index_entries))

\* the archive page of a batch
_render_batch_index_html(papers) ==
    TopicSections("../../",
        GroupItems([i \in 1..Len(papers) |-> papers[i].topic.name], papers, <<>>))

InitEscape ==
    /\ Constructed
    /\ arg \in {[fn |-> "render", field |-> field, text |-> text] :
                    field \in TextFields, text \in Texts}
    /\ res = NoRes

RenderPages ==
    /\ arg.fn = "render"
    /\ res = NoRes
    /\ \E summary \in {SummaryWith(arg.field, arg.text)} :
          res' = [fn |-> "render",
                  detail |-> _render_paper(summary),
                  index |-> _render_index_with_archives(
                                <<[k |-> summary.topic.name, v |-> <<summary>>]>>),
                  archive |-> _render_batch_index_html(<<summary>>)]
    /\ UNCHANGED <<site, arg>>

SpecEscape == InitEscape /\ [][RenderPages]_vars

\* the characters with a meaning in HTML
Special == {"<", ">", "&", "\"", "'"}

\* no piece of the page that renders a field holds a raw special character
RawFree(page) ==
    \A i \in 1..Len(page) :
        page[i].origin # "template" =>
            \A j \in 1..Len(page[i].text) : page[i].text[j] \notin Special

\* the character a token stands for in a browser
Unescape(tokens) ==
    [i \in 1..Len(tokens) |->
        CASE tokens[i] = "&amp;" -> "&"
          [] tokens[i] = "&lt;" -> "<"
          [] tokens[i] = "&gt;" -> ">"
          [] tokens[i] = "&quot;" -> "\""
          [] tokens[i] = "&#x27;" -> "'"
          [] OTHER -> tokens[i]]

\* the pieces of a page that render the field origin
Pieces(page, origin) ==
    SelectSeqBy(page, {f \in SeqToSet(page) : f.origin = origin})

\* C15: on the detail page, the index page and the batch archive page no raw
\* '<', '>', '&' or quote character of a free-text field reaches the output, and
\* the title is there as its character references, which read back as the title.
C15_Escaping ==
    res.fn = "render" =>
        /\ RawFree(res.detail)
        /\ RawFree(res.index)
        /\ RawFree(res.archive)
        /\ \A page \in {res.detail, res.index, res.archive} :
              /\ Pieces(page, "title") # <<>>
              /\ \A i \in 1..Len(Pieces(page, "title")) :
                    Unescape(Pieces(page, "title")[i].text)
                        = SummaryWith(arg.field, arg.text).paper.title

\* a title that opens a tag and closes an attribute has been rendered on the
\* three pages
C15_Witness ==
    /\ res.fn = "render"
    /\ arg.field = "title"
    /\ arg.text = <<"<", "'">>
    /\ \A page \in {res.detail, res.index, res.archive} :
          \E i \in 1..Len(page) :
              page[i] = [origin |-> "title", text |-> <<"&lt;", "&#x27;">>]

\* ---------------------------------------------------------------- C16 .. C18
\* the last n elements of a sequence
LastN(seq, n) == SubSeq(seq, Len(seq) - n + 1, Len(seq))

\* C16: a build that returns has written index.html, archives/index.html,
\* manifest.json and data/papers.json, in that order and after the detail pages
\* and the batch files, however many records it accepted; the index page and the
\* archive listing show the statistics and the batch list the manifest was saved
\* with; the value returned under 'index' is <output_dir>/index.html.
C16_AlwaysRerender ==
    Returned(last) =>
        /\ Len(last.writes) >= 4
        /\ LastN(last.writes, 4) = <<"index", "archive_index", "manifest", "papers">>
        /\ \A i \in 1..(Len(last.writes) - 4) :
              last.writes[i] \in {"mkdir", "detail", "batch_json", "batch_html"}
        /\ indexHtml.status = "ok" /\ archiveIndexHtml.status = "ok"
        /\ manifestFile.status = "ok" /\ papersFile.status = "ok"
        /\ indexHtml.data.current_batch_id = last.batch_id
        /\ indexHtml.data.total_papers = manifestFile.data.statistics.total_papers
        /\ indexHtml.data.total_batches = Len(manifestFile.data.batches)
        /\ archiveIndexHtml.data = manifestFile.data.batches
        /\ last.returns = <<OutputDir, "index.html">>

\* a build that accepted nothing, in a week without a batch, over a site that has
\* papers: it wrote the four files and nothing else
C16_Witness ==
    /\ Returned(last)
    /\ last.new_papers = <<>>
    /\ last.skipped > 0
    /\ last.writes = <<"mkdir", "index", "archive_index", "manifest", "papers">>
    /\ indexHtml.data.total_papers > 0
    /\ indexHtml.data.no_new_papers
    /\ last.batch_id \notin SeqToSet(BatchIds(manifestFile.data.batches))

\* C17: a step changes the archive files (index.html and batch.json) of no batch
\* but the current one of a build that returned with at least one accepted record,
\* which then hold the records of that build; no archive disappears.
C17_ArchiveFrame ==
    [][/\ DOMAIN archives \subseteq DOMAIN archives'
       /\ \A id \in DOMAIN archives' :
             (id \notin DOMAIN archives \/ archives'[id] # archives[id]) =>
                /\ Returned(last')
                /\ id = last'.batch_id
                /\ last'.new_papers # <<>>
       /\ (Returned(last') /\ last'.new_papers # <<>>) =>
             /\ last'.batch_id \in DOMAIN archives'
             /\ archives'[last'.batch_id].json.papers = ArxivIds(last'.new_papers)
             /\ archives'[last'.batch_id].json.id = last'.batch_id]_vars

\* a build that accepted nothing has returned in a week whose batch has archive
\* files, written by an earlier build
C17_Witness ==
    /\ Returned(last)
    /\ last.new_papers = <<>>
    /\ last.skipped > 0
    /\ last.batch_id \in DOMAIN archives
    /\ archives[last.batch_id].json.generated < last.time

\* the detail page of a record
PageOf(summary) == [topic |-> summary.topic, arxiv_id |-> summary.arxiv_id]

\* C18: a build removes no file: the detail pages, the archive directories and
\* the four files of the site that exist before it exist after it; it writes the
\* detail pages of the records it accepted and no other, none of them the page
\* of an identifier that the Store held when the build loaded it.
C18_NeverDeletes ==
    [][/\ topicPages \subseteq topicPages'
       /\ DOMAIN archives \subseteq DOMAIN archives'
       /\ \A file \in {<<manifestFile.status, manifestFile'.status>>,
                       <<papersFile.status, papersFile'.status>>,
                       <<indexHtml.status, indexHtml'.status>>,
                       <<archiveIndexHtml.status, archiveIndexHtml'.status>>} :
             file[1] = "ok" => file[2] = "ok"
       /\ Returned(last') =>
             /\ SeqToSet(last'.pages)
                   = {PageOf(last'.new_papers[i]) : i \in 1..Len(last'.new_papers)}
             /\ topicPages' = topicPages \cup SeqToSet(last'.pages)
             /\ \A i \in 1..Len(last'.pages) :
                   last'.pages[i].arxiv_id \notin DictKeys(LoadPapers(papersFile))
       /\ ~Returned(last') => topicPages' = topicPages]_vars

\* a build given a stored identifier and a new one has written the page of the
\* new one beside the page of the stored one
C18_Witness ==
    /\ Returned(last)
    /\ last.skipped = 1
    /\ Len(last.pages) = 1
    /\ \E page \in topicPages :
          page.arxiv_id \notin SeqToSet(ArxivIds(last.new_papers))
    /\ Cardinality(topicPages) = 2

\* ---------------------------------------------------------------- language
\* The language handed to the constructor: None or a text.
MaxLang == 3
Languages ==
    {None} \cup {Some(text) : text \in SeqsUpTo({"e", "E", "n", "N", "z", "-"}, MaxLang)}

En == <<"e", "n">>
ZhCN == <<"z", "h", "-", "C", "N">>

\* str.lower() on the letters of the texts
Lower(text) ==
    [i \in 1..Len(text) |->
        CASE text[i] = "E" -> "e"
          [] text[i] = "N" -> "n"
          [] text[i] = "C" -> "c"
          [] OTHER -> text[i]]

\* str.startswith(prefix)
StartsWith(text, prefix) ==
    Len(text) >= Len(prefix) /\ SubSeq(text, 1, Len(prefix)) = prefix

\* a normalisation that compares without lower-casing
_normalise_languageCased(language) ==
    IF language # None /\ language.some # <<>> /\ StartsWith(language.some, En)
    THEN En ELSE ZhCN

_normalise_language(language) ==
    IF language # None /\ language.some # <<>> /\ StartsWith(Lower(language.some), En)
    THEN En ELSE ZhCN

\* the bilingual labels of the pages, as (zh_text, en_text)
Labels ==
    {[zh_text |-> <<"shou ye">>, en_text |-> <<"HOME">>],
     [zh_text |-> <<"wen", "&", "da">>, en_text |-> <<"Q", "&", "A">>]}

\* the span _i18n builds: both texts as attributes, one of them as content
_i18n(language, zh_text, en_text) ==
    LET default_text == IF language # En THEN zh_text ELSE en_text
    IN  [data_lang_zh |-> _escape(zh_text), data_lang_en |-> _escape(en_text),
         content |-> _escape(default_text)]

InitLanguage ==
    /\ Constructed
    /\ arg \in {[fn |-> "language", language |-> language] : language \in Languages}
    /\ res = NoRes

\* __init__ normalises the language; the labels are rendered with the result
NormaliseLanguage ==
    /\ arg.fn = "language"
    /\ res = NoRes
    /\ \E language \in {_normalise_language(arg.language)} :
          res' = [fn |-> "language", language |-> language,
                  again |-> _normalise_language(Some(language)),
                  labels |-> [l \in Labels |-> _i18n(language, l.zh_text, l.en_text)]]
    /\ UNCHANGED <<site, arg>>

SpecLanguage == InitLanguage /\ [][NormaliseLanguage]_vars

\* the text is not empty and begins with e or E followed by n or N
BeginsWithEn(language) ==
    /\ language # None
    /\ Len(language.some) >= 2
    /\ language.some[1] \in {"e", "E"}
    /\ language.some[2] \in {"n", "N"}

\* C19: _normalise_language gives 'en' exactly for a non-empty language that
\* begins with "en" whatever the case, and 'zh-CN' for anything else, None and the
\* empty text included; normalising the result gives the result; every bilingual
\* label shows its English text when the result is 'en', its Chinese text
\* otherwise.
C19_NormaliseLanguage ==
    res.fn = "language" =>
        /\ res.language = (IF BeginsWithEn(arg.language) THEN En ELSE ZhCN)
        /\ res.again = res.language
        /\ \A l \in Labels :
              res.labels[l].content
                  = (IF res.language = En THEN _escape(l.en_text) ELSE _escape(l.zh_text))

\* "En-" has been normalised to 'en' and the labels show their English text
C19_Witness ==
    /\ res.fn = "language"
    /\ arg.language = Some(<<"E", "n", "-">>)
    /\ res.language = En
    /\ res.again = En
    /\ \A l \in Labels : res.labels[l].content = _escape(l.en_text)

\* ---------------------------------------------------------------- C20
\* C20: a build that found the manifest or the paper store malformed or unreadable,
\* and reset it to its empty default, has emitted a warning line that records it.
C20_CorruptionLogged ==
    (Returned(last) /\ "corrupt" \in {last.found[1], last.found[2]}) =>
        \E i \in 1..Len(last.log) : last.log[i].level = "WARNING"

\* ---------------------------------------------------------------- index and Store
\* C21: after any build that returns, also one whose load found a document absent
\* or corrupt, the manifest index has the keys of the Paper Store, and each entry's
\* batch and topic are the batch_id and topic name stored with the record.
C21_ManifestProjection ==
    Returned(last) =>
        /\ DictKeys(manifestFile.data.papers) = DictKeys(papersFile.data)
        /\ \A i \in 1..Len(papersFile.data) :
              papersFile.data[i].k \in DictKeys(manifestFile.data.papers) =>
                 \A entry \in {DictGet(manifestFile.data.papers, papersFile.data[i].k)} :
                    /\ entry.batch = papersFile.data[i].v.batch_id
                    /\ entry.topic = papersFile.data[i].v.topic.name

\* C22: after any sequence of builds that returned, every batch entry's paper_count
\* is the number of Store records stamped with its id, the counts add up to
\* statistics.total_papers, and every batch_id stamped on a record names an entry
\* of the batch list.
C22_BatchCounts ==
    Returned(last) =>
        \A batches \in {manifestFile.data.batches} :
        \A store \in {papersFile.data} :
            /\ \A i \in 1..Len(batches) :
                  batches[i].paper_count = Cardinality(StampedWith(store, batches[i].id))
            /\ SumSeq([i \in 1..Len(batches) |-> batches[i].paper_count])
                  = manifestFile.data.statistics.total_papers
            /\ \A j \in 1..Len(store) :
                  store[j].v.batch_id \in SeqToSet(BatchIds(batches))

\* two batches, the later one filled by two builds of its week, the last of which
\* also skipped a record
C22_Witness ==
    /\ Returned(last)
    /\ Len(manifestFile.data.batches) = 2
    /\ last.skipped > 0
    /\ Len(last.new_papers) = 1
    /\ manifestFile.data.batches[1].paper_count = 1
    /\ manifestFile.data.statistics.total_papers = 2

\* C23: after any sequence of builds that returned, every identifier of the Store
\* has exactly one detail page, at topics/<topic>/<identifier>.html for the topic of
\* its manifest entry (and of its Store record); a build writes a page exactly for
\* the first submission of each identifier not stored before it, so a submission
\* of the same identifier under another topic, in the same build or a later one,
\* produces none.
C23_OnePagePerId ==
    Returned(last) =>
        \A index \in {manifestFile.data.papers} :
        \A store \in {papersFile.data} :
            /\ {page.arxiv_id : page \in topicPages} = DictKeys(store)
            /\ Cardinality(topicPages) = Len(store)
            /\ \A page \in topicPages :
                  /\ page.arxiv_id \in DictKeys(index)
                  /\ page.topic = DictGet(index, page.arxiv_id).topic
                  /\ page.arxiv_id \in DictKeys(store)
                  /\ page.topic = DictGet(store, page.arxiv_id).topic.name
            /\ SeqToSet(last.pages) = last.firsts
            /\ NoDuplicates(last.pages)

\* the first paper is stored under "nlp" by an earlier build; this build is given
\* it again, skips it, and accepts the other paper: one page each, the first
\* paper's under "nlp" only
C23_Witness ==
    /\ Returned(last)
    /\ last.skipped > 0
    /\ Len(last.pages) = 1
    /\ topicPages = {[topic |-> "nlp", arxiv_id |-> 1], [topic |-> "apr", arxiv_id |-> 2]}
    /\ DictGet(papersFile.data, 1).indexed_at < last.time

\* ---------------------------------------------------------------- score on the pages
\* the score of an item of the current-batch index page: the stored
\* score_details["total_score"] under the format specification .1f
IndexPageScore(paper_data) ==
    OneDecimal(RoundHalfEven(paper_data.score_details.total_score * 10, ValueUnit))

\* The ScoredPaper objects the ranker hands over: total_score is the weighted sum
\* of the dimension values (run_pipeline divides it by the sum of the weights to
\* normalise it), counted like the values in halves.
InitPageScore ==
    /\ Constructed
    /\ arg \in {[fn |-> "page_score",
                  summary |-> [score_details |->
                      [paper |-> [arxiv_id |-> 1, title |-> "title"], scores |-> scores,
                       total_score |-> SumSeq([i \in 1..Len(scores) |->
                                                  scores[i].weight * scores[i].value])]]] :
                    scores \in ScoreLists}
    /\ res = NoRes

\* one build of a summary that is accepted: the Store record made of it, and the
\* score on each page (the header of the detail page and the item of a batch
\* archive page both call _format_score) and in the manifest index entry
RenderScores ==
    /\ arg.fn = "page_score"
    /\ res = NoRes
    /\ \E paper_data \in {[score_details |-> ScoredPaper_to_dict(arg.summary.score_details)]} :
          res' = [fn |-> "page_score",
                  index |-> IndexPageScore(paper_data),
                  manifest |-> IndexScore(arg.summary.score_details.scores),
                  detail |-> _format_score(arg.summary.score_details.scores),
                  archive |-> _format_score(arg.summary.score_details.scores)]
    /\ UNCHANGED <<site, arg>>

SpecPageScore == InitPageScore /\ [][RenderScores]_vars

\* C24: the score shown for a record on the current-batch index page is its
\* normalized score 100 * sum(weight * value) / sum(weight) to one decimal place:
\* the text of the detail page and of the batch archive page, and the number of
\* its manifest index entry.
C24_IndexScore ==
    res.fn = "page_score" =>
        /\ res.index = _format_score(arg.summary.score_details.scores)
        /\ res.index = res.detail
        /\ res.index = res.archive
        /\ ParseFloat(res.index) = res.manifest

\* ---------------------------------------------------------------- line breaks
\* the free-text sections of the detail page
FreeText ==
    {"brief_summary", "problem", "solution", "methodology", "experiments",
     "conclusion", "answer", "overview"}

\* C25: in every free-text section of the detail page (the brief summary
\* paragraphs, the five core-summary aspects, the finding answers, the overview)
\* each newline of the source text is rendered as a <br/> line break: no section
\* shows a raw newline, and a section rendered from a text with a newline in it
\* has a break.
C25_NewlineBreaks ==
    (res.fn = "render" /\ arg.field \in FreeText) =>
        \A pieces \in {Pieces(res.detail, arg.field)} :
            \A i \in 1..Len(pieces) :
                /\ "\n" \notin SeqToSet(pieces[i].text)
                /\ (arg.field # "brief_summary" /\ "\n" \in SeqToSet(arg.text)) =>
                      "<br/>" \in SeqToSet(pieces[i].text)

\* ---------------------------------------------------------------- language of a pipeline run
\* StaticSiteBuilder(site_config, language): the fields __init__ sets
StaticSiteBuilder(site_config, language) ==
    [site_config |-> site_config,
     language |-> _normalise_language(language),
     _existing_papers |-> <<>>,
     _existing_manifest |-> <<>>]

\* what a rendered page says about its default language: <html lang=...>
\* (_html_lang), <body data-lang=...> and defaultLang of the language script
PageLanguage(self) ==
    [html_lang |-> IF self.language = En THEN <<"e", "n">> ELSE <<"z", "h", "-", "c", "n">>,
     data_lang |-> self.language,
     default_lang |-> self.language]

\* the configurations load_pipeline_config returns, as far as the language goes:
\* SiteConfig has an output directory and a base URL, the language setting is
\* openai.language
InitPipelineLanguage ==
    /\ Constructed
    /\ arg \in {[fn |-> "run_pipeline",
                  config |-> [site |-> [output_dir |-> OutputDir, base_url |-> BaseUrl],
                              openai |-> [language |-> language.some]]] :
                    language \in Languages \ {None}}
    /\ res = NoRes

\* run_pipeline as far as the site goes: it constructs the builder with
\* "site_builder = StaticSiteBuilder(config.site)", so the parameter `language`
\* takes its default "zh-CN", and builds
RunPipelineSite ==
    /\ arg.fn = "run_pipeline"
    /\ res = NoRes
    /\ \E site_builder \in {StaticSiteBuilder(arg.config.site, Some(ZhCN))} :
          res' = [fn |-> "run_pipeline",
                  language |-> site_builder.language,
                  page |-> PageLanguage(site_builder),
                  labels |-> [l \in Labels |->
                                 _i18n(site_builder.language, l.zh_text, l.en_text)]]
    /\ UNCHANGED <<site, arg>>

SpecPipelineLanguage == InitPipelineLanguage /\ [][RunPipelineSite]_vars

\* C26: the default display language of the pages run_pipeline builds is the
\* normalised value of the configured language: 'en' for a setting that begins with
\* "en" whatever the case, 'zh-CN' otherwise, and the labels show the text of that
\* language.
C26_ConfiguredLanguage ==
    res.fn = "run_pipeline" =>
        \A configured \in {IF BeginsWithEn(Some(arg.config.openai.language))
                           THEN En ELSE ZhCN} :
            /\ res.language = configured
            /\ res.page.default_lang = configured
            /\ res.page.data_lang = configured
            /\ \A l \in Labels :
                  res.labels[l].content
                      = (IF configured = En THEN _escape(l.en_text) ELSE _escape(l.zh_text))

\* ---------------------------------------------------------------- GitHub markdown table
\* (src/src/publisher/github_committer.py) A text is a sequence of tokens: a
\* character the code looks at ("|", " ", "\n", "[", "]", "(", ")") or a run of
\* other characters ("Title", "---", "a", ...).
MaxPapers == 2
MaxLines == 3

\* the members of a set of numbers in increasing order
Sorted(S) ==
    [k \in 1..Cardinality(S) |-> CHOOSE i \in S : Cardinality({j \in S : j < i}) = k - 1]

\* text.split(sep) for a one-character sep: the pieces between its occurrences
Split(text, sep) ==
    LET cuts == <<0>> \o Sorted({i \in 1..Len(text) : text[i] = sep}) \o <<Len(text) + 1>>
    IN  [k \in 1..(Len(cuts) - 1) |-> SubSeq(text, cuts[k] + 1, cuts[k + 1] - 1)]

RECURSIVE JoinWith(_, _)
\* sep.join(parts)
JoinWith(parts, sep) ==
    IF parts = <<>> THEN <<>>
    ELSE IF Len(parts) = 1 THEN parts[1]
    ELSE parts[1] \o sep \o JoinWith(Tail(parts), sep)

Whitespace == {" ", "\n"}

RECURSIVE StripWs(_)
\* str.strip()
StripWs(text) ==
    IF text = <<>> THEN text
    ELSE IF Head(text) \in Whitespace THEN StripWs(Tail(text))
    ELSE IF text[Len(text)] \in Whitespace THEN StripWs(SubSeq(text, 1, Len(text) - 1))
    ELSE text

\* str.split(): the words between runs of whitespace
SplitWs(text) ==
    LET first == Sorted({i \in 1..Len(text) :
                            text[i] \notin Whitespace /\ (i = 1 \/ text[i - 1] \in Whitespace)})
        last_ == Sorted({i \in 1..Len(text) :
                            text[i] \notin Whitespace
                                /\ (i = Len(text) \/ text[i + 1] \in Whitespace)})
    IN  [k \in 1..Len(first) |-> SubSeq(text, first[k], last_[k])]

\* "sub in text"
Contains(text, sub) ==
    \E i \in 1..(Len(text) - Len(sub) + 1) : SubSeq(text, i, i + Len(sub) - 1) = sub

\* PaperMetadata.to_markdown_row
to_markdown_row(self) ==
    LET cleaned_title == JoinWith(SplitWs(self.title), <<" ">>)
        cleaned_venue == JoinWith(SplitWs(self.venue), <<" ">>)
        title_with_link ==
            IF self.arxiv_url # <<>>
            THEN <<"[">> \o cleaned_title \o <<"]", "(">> \o self.arxiv_url \o <<")">>
            ELSE cleaned_title
    IN  <<"|", " ">> \o title_with_link \o <<" ", "|", " ">> \o self.published_date
            \o <<" ", "|", " ">> \o cleaned_venue \o <<" ", "|">>

HeaderLine ==
    <<"|", " ", "Title", " ", "|", " ", "Published Date", " ", "|", " ",
      "Venue/Conference", " ", "|">>
SeparatorLine == <<"|", " ", "---", " ", "|", " ", "---", " ", "|", " ", "---", " ", "|">>
table_header == HeaderLine \o <<"\n">> \o SeparatorLine

\* the titles of the rows of the existing content
ExistingTitles(existing_content) ==
    IF existing_content = <<>> THEN {}
    ELSE LET lines == Split(existing_content, "\n")
             rows == {i \in 1..Len(lines) :
                        \/ StartsWith(lines[i], <<"|", " ", "[">>)
                        \/ /\ StartsWith(lines[i], <<"|", " ">>)
                           /\ ~StartsWith(lines[i], <<"|", " ", "Title">>)
                           /\ ~StartsWith(lines[i], <<"|", " ", "---">>)}
             TitleOf(line) ==
                 LET parts == Split(line, "|")
                     title_part == StripWs(parts[2])
                 IN  IF StartsWith(title_part, <<"[">>)
                     THEN Tail(Split(title_part, "]")[1])
                     ELSE title_part
         IN  {TitleOf(lines[i]) : i \in {j \in rows : Len(Split(lines[j], "|")) >= 2}}

\* the last separator line instead of the first
SeparatorIndexLast(lines) ==
    LET found == {i \in 1..Len(lines) :
                     StartsWith(lines[i], <<"|", " ", "---">>) /\ "---" \in SeqToSet(lines[i])}
    IN  IF found = {} THEN 0 ELSE CHOOSE i \in found : \A j \in found : i >= j

\* the first separator line of the table, 0 when there is none
SeparatorIndex(lines) ==
    LET found == {i \in 1..Len(lines) :
                     StartsWith(lines[i], <<"|", " ", "---">>) /\ "---" \in SeqToSet(lines[i])}
    IN  IF found = {} THEN 0 ELSE CHOOSE i \in found : \A j \in found : i <= j

\* GitHubCommitter._build_markdown_table; timestamp is the text of utcnow()
_build_markdown_table(papers, existing_content, timestamp) ==
    LET existing_titles == ExistingTitles(existing_content)
        \* the papers that are not in the table, in the order of the papers
        fresh == SelectSeqBy(papers, {q \in SeqToSet(papers) : q.title \notin existing_titles})
        new_rows == [i \in 1..Len(fresh) |-> to_markdown_row(fresh[i])]
    IN  IF new_rows = <<>> THEN existing_content
        ELSE IF \/ Contains(existing_content, table_header)
                \/ Contains(existing_content, <<"|", " ", "Title", " ", "|">>)
        THEN LET lines == Split(existing_content, "\n")
                 at == SeparatorIndex(lines)
                 result_lines ==
                     IF at # 0
                     THEN SubSeq(lines, 1, at) \o new_rows \o SubSeq(lines, at + 1, Len(lines))
                     ELSE lines \o new_rows
             IN  JoinWith(result_lines, <<"\n">>)
        ELSE LET content_lines ==
                     <<<<"# Paper Updates">>, <<>>,
                       <<"*Last updated: ">> \o timestamp \o <<"*">>, <<>>, table_header>>
                     \o new_rows
                     \o (IF existing_content # <<>>
                         THEN <<<<>>, <<"---">>, <<>>, existing_content>>
                         ELSE <<>>)
             IN  JoinWith(content_lines, <<"\n">>)

\* the PaperMetadata objects handed to the committer: a linked title, a plain
\* title, and titles with a run of blanks or a newline inside
PaperMetadata ==
    {[title |-> row[1], published_date |-> <<"2021-01-01">>, venue |-> <<"arXiv">>,
      arxiv_id |-> <<"id">>, arxiv_url |-> row[2]] :
        row \in {<<<<"a">>, <<"u">>>>, <<<<"b">>, <<>>>>,
                 <<<<"a", " ", " ", "b">>, <<"u">>>>, <<<<"a", "\n", "b">>, <<>>>>}}

\* the lines of the file in the repository: the header, the separator, a row
\* with a link, a row without, and a line of other text
InitTable ==
    /\ Constructed
    /\ arg \in {[fn |-> "table", papers |-> papers,
                  existing_content |-> JoinWith(lines, <<"\n">>)] :
                    papers \in SeqsUpTo(PaperMetadata, MaxPapers),
                    lines \in SeqsUpTo(
                        {HeaderLine, SeparatorLine, <<"x">>} \cup
                        {to_markdown_row(q) :
                            q \in {r \in PaperMetadata : r.title \in {<<"a">>, <<"b">>}}},
                        MaxLines)}
    /\ res = NoRes

\* two commits of the same papers, the second on the content the first one left
BuildMarkdownTable ==
    /\ arg.fn = "table"
    /\ res = NoRes
    /\ \E content \in {_build_markdown_table(arg.papers, arg.existing_content, <<"t1">>)} :
          res' = [fn |-> "table", content |-> content,
                  again |-> _build_markdown_table(arg.papers, content, <<"t2">>)]
    /\ UNCHANGED <<site, arg>>

SpecTable == InitTable /\ [][BuildMarkdownTable]_vars

\* C28: building the table of the papers P on the content that building it on C
\* gave changes nothing: a paper whose title has a row is not added again,
\* whatever the title (blanks and newlines inside it included) and also when it
\* occurs twice in P.
C28_TableIdempotent ==
    res.fn = "table" => res.again = res.content

\* a line that begins like the separator of a table header
IsSeparator(line) == StartsWith(line, <<"|", " ", "---">>)

\* the content holds the header of the table
HasHeader(content) == Contains(content, <<"|", " ", "Title", " ", "|">>)

Returns(value) == [raised |-> "none", returns |-> value]
Raises(exception) == [raised |-> exception, returns |-> FALSE]

\* GitHubCommitter._get_or_create_branch: "none" or the exception it raises
_get_or_create_branch(github) ==
    IF ~github.get_repo THEN "ValueError"
    ELSE IF github.get_branch THEN "none"
    ELSE IF ~github.get_default_branch THEN "GithubException"
    ELSE IF ~github.create_git_ref THEN "ValueError"
    ELSE "none"

\* GitHubCommitter._get_existing_content
_get_existing_content(file) == IF file = None THEN <<>> ELSE file.some

\* GitHubCommitter.commit_papers: what it returns or raises, and the file it leaves
commit_papers(papers, github, file) ==
    IF papers = <<>> THEN [call |-> Returns(TRUE), file |-> file]
    ELSE IF _get_or_create_branch(github) # "none"
    THEN [call |-> Raises(_get_or_create_branch(github)), file |-> file]
    ELSE LET existing_content == _get_existing_content(file)
             new_content == _build_markdown_table(papers, existing_content, <<"t1">>)
         IN  IF new_content = existing_content THEN [call |-> Returns(TRUE), file |-> file]
             ELSE IF file # None /\ github.update_file
                  THEN [call |-> Returns(TRUE), file |-> Some(new_content)]
             ELSE IF github.create_file
                  THEN [call |-> Returns(TRUE), file |-> Some(new_content)]
             ELSE [call |-> Returns(FALSE), file |-> file]

\* github is what the GitHub API answers during one call of commit_papers (each
\* request either succeeds or raises GithubException); file is the file of the
\* table on the target branch: missing, or with a table
InitCommit ==
    /\ Constructed
    /\ arg \in {[fn |-> "commit_papers", papers |-> papers, github |-> github, file |-> file] :
                    papers \in SeqsUpTo(PaperMetadata, 1),
                    github \in
                        [get_repo : BOOLEAN,            \* the repository is accessible
                         get_branch : BOOLEAN,          \* the target branch exists
                         get_default_branch : BOOLEAN,  \* the default branch can be read
                         create_git_ref : BOOLEAN,      \* the target branch can be created
                         update_file : BOOLEAN,         \* the update of the file is accepted
                         create_file : BOOLEAN],        \* the creation of the file is accepted
                    file \in {None} \cup
                        {Some(_build_markdown_table(<<q>>, <<>>, <<"t0">>)) :
                            q \in {r \in PaperMetadata : r.title \in {<<"a">>, <<"b">>}}}}
    /\ res = NoRes

\* the GitHub step of run_pipeline: the call is not inside a try, the email step
\* comes after it
CommitStep ==
    /\ arg.fn = "commit_papers"
    /\ res = NoRes
    /\ \E done \in {commit_papers(arg.papers, arg.github, arg.file)} :
          res' = [fn |-> "commit_papers", call |-> done.call, file |-> done.file,
                  email_step |-> done.call.raised = "none"]
    /\ UNCHANGED <<site, arg>>

SpecCommit == InitCommit /\ [][CommitStep]_vars

\* C27: for a non-empty paper list commit_papers never raises, so run_pipeline
\* goes on to the email step; it returns False when a request to GitHub failed
\* (repository not accessible, branch not created, file update or creation
\* rejected) and the file is then as it was, True when the file was written or
\* there was nothing to change.
C27_CommitByValue ==
    (res.fn = "commit_papers" /\ arg.papers # <<>>) =>
        /\ res.call.raised = "none"
        /\ res.email_step
        /\ res.call.returns = FALSE => res.file = arg.file
        /\ (~arg.github.get_repo
              \/ (~arg.github.get_branch
                     /\ ~(arg.github.get_default_branch /\ arg.github.create_git_ref))) =>
              res.call.returns = FALSE
        /\ res.call.returns = TRUE =>
              \/ res.file = arg.file
              \/ res.file = Some(_build_markdown_table(arg.papers,
                                    _get_existing_content(arg.file), <<"t1">>))

\* ---------------------------------------------------------------- venue extraction
\* (src/src/summaries/metadata_extractor.py) A comment is a sequence of words and
\* separators; a word is one token.
MaxComment == 3
Comments ==
    {None} \cup
    {Some(text) :
        text \in SeqsUpTo({"accepted at", "Accepted at", "ICSE", "icse", "AI", "signature",
                           " ", ",", "2024"}, MaxComment)}

ArXiv == <<"arXiv">>

\* str.lower() of a word
LowerWord(word) ==
    CASE word = "Accepted at" -> "accepted at"
      [] word = "ICSE" -> "icse"
      [] word = "AI" -> "ai"
      [] word = "arXiv" -> "arxiv"
      [] word = "ARXIV" -> "arxiv"
      [] OTHER -> word

\* the names of the conference patterns, in the order of the list
conferences ==
    <<"icse", "fse", "ase", "issta", "neurips", "iclr", "icml", "cvpr", "iccv", "eccv",
      "acl", "emnlp", "naacl", "sigmod", "vldb", "kdd", "www", "chi", "uist">>

\* the journal keywords, in the order of the list
journal_keywords ==
    <<"ieee transactions on software engineering",
      "acm transactions on software engineering",
      "ieee transactions on pattern analysis and machine intelligence",
      "ieee software", "journal of systems and software",
      "empirical software engineering", "software testing", "nature", "science">>

IsYear(word) == word = "2024"

\* re.search(name + r'\s*\d{4}', text): the leftmost match, <<>> when there is none
SearchConference(text, name) ==
    LET starts == {i \in 1..Len(text) :
                      /\ text[i] = name
                      /\ \E j \in (i + 1)..Len(text) :
                            /\ IsYear(text[j])
                            /\ \A k \in (i + 1)..(j - 1) : text[k] = " "}
    IN  IF starts = {} THEN <<>>
        ELSE LET i == CHOOSE x \in starts : \A y \in starts : x <= y
                 j == CHOOSE x \in (i + 1)..Len(text) :
                         IsYear(text[x]) /\ \A k \in (i + 1)..(x - 1) : text[k] = " "
             IN  SubSeq(text, i, j)

\* re.search(r'accepted (?:to|at|by|for)\s+([A-Z][A-Za-z0-9\s]+?)(?:\d{4}|,|\.|$)', text):
\* group 1 of the leftmost match, <<>> when there is none
SearchAccepted(text) ==
    LET First(i) ==    \* the first word after the blanks that follow text[i]
            CHOOSE j \in (i + 1)..(Len(text) + 1) :
                /\ \A k \in (i + 1)..(j - 1) : text[k] = " "
                /\ j <= Len(text) => text[j] # " "
        starts == {i \in 1..Len(text) :
                      /\ text[i] = "accepted at"
                      /\ First(i) > i + 1
                      /\ First(i) <= Len(text)
                      /\ text[First(i)] \in {"ICSE", "AI", "Accepted at"}}    \* [A-Z]
    IN  IF starts = {} THEN <<>>
        ELSE LET i == CHOOSE x \in starts : \A y \in starts : x <= y
                 from == First(i)
                 stops == {j \in (from + 1)..(Len(text) + 1) :
                              j = Len(text) + 1 \/ IsYear(text[j]) \/ text[j] = ","}
                 to == CHOOSE x \in stops : \A y \in stops : x <= y
             IN  SubSeq(text, from, to - 1)

\* MetadataExtractor._extract_venue_simple
_extract_venue_simple(comment) ==
    IF comment = <<>> THEN ArXiv
    ELSE LET comment_lower == [i \in 1..Len(comment) |-> LowerWord(comment[i])]
             \* str.upper() of the name of a conference
             UpperWord(word) == IF word = "icse" THEN "ICSE" ELSE word
             \* the one-word journal keywords a word holds ('nature' is in 'signature')
             JournalsIn(word) == IF word = "signature" THEN {"nature"} ELSE {}
             \* str.title() of a journal keyword
             TitleWord(word) == IF word = "nature" THEN "Nature" ELSE word
             \* len() of a word
             CharLen(word) ==
                 CASE word \in {" ", ","} -> 1
                   [] word = "AI" -> 2
                   [] word \in {"ICSE", "icse", "2024"} -> 4
                   [] word = "signature" -> 9
                   [] OTHER -> 11
             found == {c \in 1..Len(conferences) :
                          SearchConference(comment_lower, conferences[c]) # <<>>}
             held == UNION {JournalsIn(comment_lower[i]) : i \in 1..Len(comment)}
             journals == {k \in 1..Len(journal_keywords) : journal_keywords[k] \in held}
             generic == \E i \in 1..Len(comment) : comment_lower[i] = "accepted at"
             venue == StripWs(SearchAccepted(comment))
         IN  IF found # {}
             THEN LET c == CHOOSE x \in found : \A y \in found : x <= y
                      match == SearchConference(comment_lower, conferences[c])
                  IN  [i \in 1..Len(match) |-> UpperWord(match[i])]
             ELSE IF journals # {}
             THEN <<TitleWord(journal_keywords[CHOOSE x \in journals : \A y \in journals : x <= y])>>
             ELSE IF /\ generic
                     /\ venue # <<>>
                     /\ SumSeq([i \in 1..Len(venue) |-> CharLen(venue[i])]) > 3
             THEN venue
             ELSE ArXiv

\* MetadataExtractor._extract_venue_with_llm: None or the venue
_extract_venue_with_llm(client, comment, llm) ==
    IF ~client THEN None
    ELSE IF llm.raises THEN None
    ELSE LET unquoted == SelectSeqBy(StripWs(llm.content),
                                     SeqToSet(llm.content) \ {"\"", "'"})
             venue == StripWs(unquoted)
         IN  IF venue = <<>> \/ [i \in 1..Len(venue) |-> LowerWord(venue[i])] = <<"arxiv">>
             THEN Some(ArXiv)
             ELSE Some(venue)

\* MetadataExtractor.extract_venue, the venue of the pair it returns
extract_venue(client, comment, llm) ==
    IF comment # None /\ comment.some # <<>> /\ client
    THEN LET extracted_venue == _extract_venue_with_llm(client, comment.some, llm)
         IN  IF extracted_venue # None /\ extracted_venue.some # <<>>
             THEN extracted_venue.some
             ELSE ArXiv
    ELSE IF comment # None /\ comment.some # <<>>
    THEN _extract_venue_simple(comment.some)
    ELSE ArXiv

\* llm is what the chat completion request does: it raises, or it answers with a text
InitVenue ==
    /\ Constructed
    /\ arg \in {[fn |-> "extract_venue", client |-> client, comment |-> comment, llm |-> llm] :
                    client \in BOOLEAN, comment \in Comments,
                    llm \in {[raises |-> TRUE, content |-> <<>>]} \cup
                            {[raises |-> FALSE, content |-> text] :
                                text \in {<<>>, <<" ", "ARXIV">>,
                                          <<"\"", "FSE 2023", "\"">>, <<"'", " ">>}}}
    /\ res = NoRes

ExtractVenue ==
    /\ arg.fn = "extract_venue"
    /\ res = NoRes
    /\ res' = [fn |-> "extract_venue",
               venue |-> extract_venue(arg.client, arg.comment, arg.llm)]
    /\ UNCHANGED <<site, arg>>

SpecVenue == InitVenue /\ [][ExtractVenue]_vars

\* C30: with a comment, a configured client and a failing LLM call the venue is
\* what the rule-based extraction finds in the comment (a comment naming a known
\* conference gives that conference); without a comment it is 'arXiv'; it is
\* never empty.
C30_VenueFallback ==
    res.fn = "extract_venue" =>
        /\ res.venue # <<>>
        /\ (arg.comment = None \/ arg.comment = Some(<<>>)) => res.venue = ArXiv
        /\ (arg.comment # None /\ arg.comment # Some(<<>>) /\ arg.client /\ arg.llm.raises) =>
              /\ res.venue = _extract_venue_simple(arg.comment.some)
              /\ arg.comment.some = <<"ICSE", " ", "2024">> =>
                    res.venue = <<"ICSE", " ", "2024">>

====
